---- MODULE Spec2Model ----
(***************************************************************************)
(* A model of RustRedis: the typed keyspace (src/db.rs), the command layer *)
(* (src/cmd/mod.rs), the append-only file (src/persistence.rs), the frame  *)
(* codec (src/frame.rs, src/connection.rs), the publish/subscribe hub      *)
(* (src/pubsub.rs), and the connection task and the startup replay         *)
(* (src/bin/server.rs).                                                    *)
(*                                                                         *)
(* Bytes are one-character strings; a byte string (Bytes, String, Vec<u8>) *)
(* is a sequence of them.  Option<T> is a sequence of length at most one.  *)
(***************************************************************************)
EXTENDS Integers, Sequences, FiniteSets, TLC

VARIABLES
    entries,      \* DbState.entries: a map from key to Entry
    now,          \* the monotonic clock read by Instant::now()
    last,         \* observer: the last keyspace call (its input, the entry it met, its result)
    expiredSeen,  \* observer: keys a GET reported absent because of expiry, no SET since
    aof,          \* the bytes of appendonly.aof
    conn,         \* per connection task: its position in handle_connection and its locals
    out,          \* per connection: the response frames written to the socket
    hist,         \* observer: per connection, the requests read so far
    logged,       \* observer: the write commands in the order Aof::append ran
    applied,      \* observer: the write commands in the order of their first keyspace call
    reader,       \* a Connection's read side: its buffer, the bytes its peer has sent,
                  \* its position in read_frame, and the results of Frame::parse so far
    hub,          \* PubSub: the channels map, the Receivers handed out, the publish in
                  \* progress, and the observers of the publish and recv calls
    main          \* main at startup: its position (load, replay, serve), the frames
                  \* loaded, and the observers of the replay

dbVars  == <<entries, now, last, expiredSeen>>
srvVars == <<aof, conn, out, hist, logged, applied, reader, hub, main>>
srvVarsButMain == <<aof, conn, out, hist, logged, applied, reader, hub>>
vars    == <<entries, now, last, expiredSeen, aof, conn, out, hist, logged, applied, reader, hub, main>>

-----------------------------------------------------------------------------
(* Bounds of the model *)

\* The clock runs from 0 to MaxTime.
MaxTime == 2
\* A list holds at most MaxListLen elements (pushes beyond it are not taken).
MaxListLen == 3
\* The connections read at most MaxRequests requests between them.
MaxRequests == 3
\* A peer sends at most MaxFrames frames to a Connection, and a read from the
\* socket brings at most MaxChunk bytes (or all the bytes there are).
MaxFrames == 2
MaxChunk == 2
\* isize and usize are 64 bits wide; the model keeps IsizeBits bits of them, which
\* keeps what happens at the largest and the smallest value.
IsizeBits == 4
\* A peer of its own choosing sends a header line, an item and at most MaxTail
\* further bytes.
MaxTail == 3
\* The hub hands out at most MaxReceivers Receivers and takes at most
\* MaxPublishes publish calls.
MaxReceivers == 2
MaxPublishes == 4
\* An AOF found at startup holds at most MaxAofPieces pieces (frames of write
\* commands, torn or foreign bytes), and the server is restarted MaxRestarts times.
MaxAofPieces == 3
MaxRestarts == 1

\* Under SpecAof the tasks call Aof::append MaxAppends times in all, the interval of
\* the background task ticks MaxTicks times, and one write(2) of write_all takes
\* WriteChunk bytes or all that is left.
MaxAppends == 3
MaxTicks == 2
WriteChunk == 16

-----------------------------------------------------------------------------
(* Option<T> *)

None == <<>>
Some(x) == <<x>>

Range(s) == {s[i] : i \in DOMAIN s}

-----------------------------------------------------------------------------
(* HashMap<String, Entry> *)

MapInsert(st, key, e) == [k \in (DOMAIN st) \cup {key} |-> IF k = key THEN e ELSE st[k]]
MapRemove(st, key) == [k \in (DOMAIN st) \ {key} |-> st[k]]
EmptyMap == [k \in {} |-> 0]

\* Value and Entry
StringValue(bytes) == [type |-> "string", bytes |-> bytes]
ListValue(list)    == [type |-> "list", list |-> list]
SetValue(set)      == [type |-> "set", set |-> set]
HashValue(hash)    == [type |-> "hash", hash |-> hash]
Entry(value, expires_at) == [value |-> value, expires_at |-> expires_at]

type_name(value) == value.type

\* if let Some(expires_at) = entry.expires_at { if Instant::now() >= expires_at
Expired(e, t) == e.expires_at # None /\ t >= e.expires_at[1]

-----------------------------------------------------------------------------
(* Db: every method takes the lock, works on the map and returns.  Each is  *)
(* an operator from the map (and the clock, where the method reads it) to   *)
(* the new map and the returned value.                                      *)

Result(st, ret) == [state |-> st, ret |-> ret]

ReadStringNoTypeCheck(st, t, key) ==
    IF key \notin DOMAIN st THEN Result(st, None)
    ELSE IF Expired(st[key], t) THEN Result(MapRemove(st, key), None)
    ELSE IF st[key].value.type = "string" THEN Result(st, Some(st[key].value.bytes))
    ELSE Result(st, Some(<<>>))

ReadStringLateExpiry(st, t, key) ==
    IF key \notin DOMAIN st THEN Result(st, None)
    ELSE IF st[key].expires_at # None /\ t > st[key].expires_at[1]
         THEN Result(MapRemove(st, key), None)
    ELSE IF st[key].value.type = "string" THEN Result(st, Some(st[key].value.bytes))
    ELSE Result(st, None)

read_string(st, t, key) ==
    IF key \notin DOMAIN st THEN Result(st, None)
    ELSE IF Expired(st[key], t) THEN Result(MapRemove(st, key), None)
    ELSE IF st[key].value.type = "string" THEN Result(st, Some(st[key].value.bytes))
    ELSE Result(st, None)

WriteStringKeepsDeadline(st, key, value, expires_at) ==
    Result(MapInsert(st, key,
               Entry(StringValue(value),
                     IF expires_at = None /\ key \in DOMAIN st
                     THEN st[key].expires_at ELSE expires_at)), TRUE)

write_string(st, key, value, expires_at) ==
    Result(MapInsert(st, key, Entry(StringValue(value), expires_at)), TRUE)

get_type(st, key) ==
    IF key \in DOMAIN st THEN Result(st, Some(type_name(st[key].value)))
    ELSE Result(st, None)

exists(st, t, key) ==
    IF key \in DOMAIN st
    THEN IF Expired(st[key], t) THEN Result(MapRemove(st, key), FALSE)
         ELSE Result(st, TRUE)
    ELSE Result(st, FALSE)

delete(st, key) == Result(MapRemove(st, key), key \in DOMAIN st)

\* state.entries.entry(key).or_insert_with(|| Entry { value, expires_at: None })
OrInsertWith(st, key, value) ==
    IF key \in DOMAIN st THEN st ELSE MapInsert(st, key, Entry(value, None))

SetValueOf(st, key, value) == [st EXCEPT ![key].value = value]

Reverse(s) == [i \in 1..Len(s) |-> s[Len(s) + 1 - i]]

\* for value in values { list.push_front(value) }
RECURSIVE PushFrontAll(_, _)
PushFrontAll(list, values) ==
    IF values = <<>> THEN list
    ELSE PushFrontAll(<<Head(values)>> \o list, Tail(values))

\* for value in values { list.push_back(value) }
RECURSIVE PushBackAll(_, _)
PushBackAll(list, values) ==
    IF values = <<>> THEN list
    ELSE PushBackAll(Append(list, Head(values)), Tail(values))

LPushArgumentOrder(st, key, values) ==
    LET s1 == OrInsertWith(st, key, ListValue(<<>>)) IN
    IF s1[key].value.type = "list"
    THEN LET list == PushFrontAll(s1[key].value.list, values) IN
         Result(SetValueOf(s1, key, ListValue(list)), Len(list))
    ELSE Result(s1, 0)

lpush(st, key, values) ==
    LET s1 == OrInsertWith(st, key, ListValue(<<>>)) IN
    IF s1[key].value.type = "list"
    THEN LET list == PushFrontAll(s1[key].value.list, Reverse(values)) IN
         Result(SetValueOf(s1, key, ListValue(list)), Len(list))
    ELSE Result(s1, 0)

rpush(st, key, values) ==
    LET s1 == OrInsertWith(st, key, ListValue(<<>>)) IN
    IF s1[key].value.type = "list"
    THEN LET list == PushBackAll(s1[key].value.list, values) IN
         Result(SetValueOf(s1, key, ListValue(list)), Len(list))
    ELSE Result(s1, 0)

lpop(st, key) ==
    IF key \in DOMAIN st /\ st[key].value.type = "list" /\ st[key].value.list # <<>>
    THEN Result(SetValueOf(st, key, ListValue(Tail(st[key].value.list))),
                Some(Head(st[key].value.list)))
    ELSE Result(st, None)

RPopTakesHead(st, key) ==
    IF key \in DOMAIN st /\ st[key].value.type = "list" /\ st[key].value.list # <<>>
    THEN LET l == st[key].value.list IN
         Result(SetValueOf(st, key, ListValue(SubSeq(l, 1, Len(l) - 1))), Some(Head(l)))
    ELSE Result(st, None)

rpop(st, key) ==
    IF key \in DOMAIN st /\ st[key].value.type = "list" /\ st[key].value.list # <<>>
    THEN LET l == st[key].value.list IN
         Result(SetValueOf(st, key, ListValue(SubSeq(l, 1, Len(l) - 1))), Some(l[Len(l)]))
    ELSE Result(st, None)

llen(st, key) ==
    IF key \in DOMAIN st /\ st[key].value.type = "list"
    THEN Result(st, Some(Len(st[key].value.list)))
    ELSE Result(st, None)

\* isize: the values, and the arithmetic of a build without overflow checks
IsizeMin == -(2 ^ (IsizeBits - 1))
IsizeMax == (2 ^ (IsizeBits - 1)) - 1
Isize == IsizeMin..IsizeMax
WrapIsize(x) == ((x - IsizeMin) % (2 ^ IsizeBits)) + IsizeMin
\* x as usize
AsUsize(x) == x % (2 ^ IsizeBits)

Min(a, b) == IF a <= b THEN a ELSE b
Max(a, b) == IF a >= b THEN a ELSE b

\* The thread panics while it holds the lock ("attempt to add with overflow").
Panicked == <<"panic", "overflow">>

\* list.iter().skip(start).take(n)
SkipTake(list, start, n) == SubSeq(list, start + 1, Min(start + n, Len(list)))

\* overflow_checks: the build checks arithmetic overflow (a debug build) or wraps
\* (a release build).  stop + 1 is the one sum of the method that can overflow.
lrange(st, key, start, stop, overflow_checks) ==
    IF key \in DOMAIN st /\ st[key].value.type = "list"
    THEN LET list == st[key].value.list
             len == Len(list)
             begin == AsUsize(IF start < 0 THEN Max(len + start, 0) ELSE Min(start, len))
             end == AsUsize(IF stop < 0 THEN Max(len + stop, -1) + 1
                            ELSE Min(WrapIsize(stop + 1), len))
         IN  IF stop = IsizeMax /\ overflow_checks THEN Result(st, Panicked)
             ELSE IF begin >= end THEN Result(st, Some(<<>>))
             ELSE Result(st, Some(SkipTake(list, begin, end - begin)))
    ELSE Result(st, None)

\* for member in members { if set.insert(member) { added += 1 } }
RECURSIVE InsertAll(_, _, _)
InsertAll(set, members, added) ==
    IF members = <<>> THEN [set |-> set, n |-> added]
    ELSE InsertAll(set \cup {Head(members)}, Tail(members),
                   IF Head(members) \in set THEN added ELSE added + 1)

\* for member in members { if set.remove(&member) { removed += 1 } }
RECURSIVE RemoveAll(_, _, _)
RemoveAll(set, members, removed) ==
    IF members = <<>> THEN [set |-> set, n |-> removed]
    ELSE RemoveAll(set \ {Head(members)}, Tail(members),
                   IF Head(members) \in set THEN removed + 1 ELSE removed)

SAddCountsEveryArgument(st, key, members) ==
    LET s1 == OrInsertWith(st, key, SetValue({})) IN
    IF s1[key].value.type = "set"
    THEN LET r == InsertAll(s1[key].value.set, members, 0) IN
         Result(SetValueOf(s1, key, SetValue(r.set)),
                Cardinality({i \in DOMAIN members : members[i] \notin s1[key].value.set}))
    ELSE Result(s1, 0)

SAddOverWrongType(st, key, members) ==
    LET s1 == OrInsertWith(st, key, SetValue({})) IN
    IF s1[key].value.type = "set"
    THEN LET r == InsertAll(s1[key].value.set, members, 0) IN
         Result(SetValueOf(s1, key, SetValue(r.set)), r.n)
    ELSE Result(SetValueOf(s1, key, SetValue(Range(members))), Cardinality(Range(members)))

sadd(st, key, members) ==
    LET s1 == OrInsertWith(st, key, SetValue({})) IN
    IF s1[key].value.type = "set"
    THEN LET r == InsertAll(s1[key].value.set, members, 0) IN
         Result(SetValueOf(s1, key, SetValue(r.set)), r.n)
    ELSE Result(s1, 0)

srem(st, key, members) ==
    IF key \in DOMAIN st /\ st[key].value.type = "set"
    THEN LET r == RemoveAll(st[key].value.set, members, 0) IN
         Result(SetValueOf(st, key, SetValue(r.set)), r.n)
    ELSE Result(st, 0)

sismember(st, key, member) ==
    Result(st, key \in DOMAIN st /\ st[key].value.type = "set"
               /\ member \in st[key].value.set)

scard(st, key) ==
    IF key \in DOMAIN st /\ st[key].value.type = "set"
    THEN Result(st, Cardinality(st[key].value.set))
    ELSE Result(st, 0)

\* The orders in which a HashSet or the keys of a HashMap can be iterated.
Orders(set) == {o \in [1..Cardinality(set) -> set] : Range(o) = set}

\* order: the order in which this HashSet is iterated
smembers(st, key, order) ==
    IF key \in DOMAIN st /\ st[key].value.type = "set"
    THEN Result(st, Some(order))
    ELSE Result(st, None)

HSetOverWrongType(st, key, field, value) ==
    LET s1 == OrInsertWith(st, key, HashValue(EmptyMap)) IN
    IF s1[key].value.type = "hash"
    THEN Result(SetValueOf(s1, key, HashValue(MapInsert(s1[key].value.hash, field, value))),
                field \notin DOMAIN s1[key].value.hash)
    ELSE Result(SetValueOf(s1, key, HashValue(MapInsert(EmptyMap, field, value))), FALSE)

HSetAlwaysNew(st, key, field, value) ==
    LET s1 == OrInsertWith(st, key, HashValue(EmptyMap)) IN
    IF s1[key].value.type = "hash"
    THEN Result(SetValueOf(s1, key, HashValue(MapInsert(s1[key].value.hash, field, value))),
                TRUE)
    ELSE Result(s1, FALSE)

hset(st, key, field, value) ==
    LET s1 == OrInsertWith(st, key, HashValue(EmptyMap)) IN
    IF s1[key].value.type = "hash"
    THEN Result(SetValueOf(s1, key, HashValue(MapInsert(s1[key].value.hash, field, value))),
                field \notin DOMAIN s1[key].value.hash)
    ELSE Result(s1, FALSE)

hget(st, key, field) ==
    IF key \in DOMAIN st /\ st[key].value.type = "hash" /\ field \in DOMAIN st[key].value.hash
    THEN Result(st, Some(st[key].value.hash[field]))
    ELSE Result(st, None)

\* order: the order in which this HashMap is iterated
hgetall(st, key, order) ==
    IF key \in DOMAIN st /\ st[key].value.type = "hash"
    THEN Result(st, Some([i \in DOMAIN order |-> <<order[i], st[key].value.hash[order[i]]>>]))
    ELSE Result(st, None)

\* for field in fields { if hash.remove(&field).is_some() { deleted += 1 } }
RECURSIVE RemoveFields(_, _, _)
RemoveFields(hash, fields, deleted) ==
    IF fields = <<>> THEN [hash |-> hash, n |-> deleted]
    ELSE RemoveFields(MapRemove(hash, Head(fields)), Tail(fields),
                      IF Head(fields) \in DOMAIN hash THEN deleted + 1 ELSE deleted)

hdel(st, key, fields) ==
    IF key \in DOMAIN st /\ st[key].value.type = "hash"
    THEN LET r == RemoveFields(st[key].value.hash, fields, 0) IN
         Result(SetValueOf(st, key, HashValue(r.hash)), r.n)
    ELSE Result(st, 0)

hexists(st, key, field) ==
    Result(st, key \in DOMAIN st /\ st[key].value.type = "hash"
               /\ field \in DOMAIN st[key].value.hash)

hlen(st, key) ==
    IF key \in DOMAIN st /\ st[key].value.type = "hash"
    THEN Result(st, Cardinality(DOMAIN st[key].value.hash))
    ELSE Result(st, 0)

\* Db::flushdb is called by the command layer and the tests; db.rs does not hold it.
flushdb(st) == Result(EmptyMap, TRUE)

-----------------------------------------------------------------------------
(* The inputs the model draws from *)

Keys    == {<<"k">>, <<"j">>}
\* the keys the API-level specification calls the keyspace with
DbKeys  == {<<"k">>}
Vals    == {<<"a">>, <<"b">>}
\* argument lists of LPUSH/RPUSH/SADD/SREM/HDEL (a repeated element included)
ArgLists == {<<<<"a">>>>, <<<<"b">>>>, <<<<"a">>, <<"b">>>>, <<<<"a">>, <<"a">>>>,
             <<<<"a">>, <<"b">>, <<"a">>>>}
\* the seconds of SET ... EX
TTLs    == {0, 1}

Lookup(st, key) == IF key \in DOMAIN st THEN Some(st[key]) ELSE None

\* One call of a Db method, by name.
ApplyOp(op, st, t, key, args) ==
    CASE op = "read_string"  -> read_string(st, t, key)
      [] op = "write_string" -> write_string(st, key, args[1], args[2])
      [] op = "get_type"     -> get_type(st, key)
      [] op = "exists"       -> exists(st, t, key)
      [] op = "delete"       -> delete(st, key)
      [] op = "lpush"        -> lpush(st, key, args[1])
      [] op = "rpush"        -> rpush(st, key, args[1])
      [] op = "lpop"         -> lpop(st, key)
      [] op = "rpop"         -> rpop(st, key)
      [] op = "llen"         -> llen(st, key)
      [] op = "sadd"         -> sadd(st, key, args[1])
      [] op = "srem"         -> srem(st, key, args[1])
      [] op = "sismember"    -> sismember(st, key, args[1])
      [] op = "scard"        -> scard(st, key)
      [] op = "hset"         -> hset(st, key, args[1], args[2])
      [] op = "hget"         -> hget(st, key, args[1])
      [] op = "hdel"         -> hdel(st, key, args[1])
      [] op = "hexists"      -> hexists(st, key, args[1])
      [] op = "hlen"         -> hlen(st, key)
      [] op = "flushdb"      -> flushdb(st)

\* The list of the key after the call fits the model's bound.
FitsBound(st, key) ==
    key \in DOMAIN st /\ st[key].value.type = "list" => Len(st[key].value.list) <= MaxListLen

\* The observers' record of one keyspace call made by task `by` (0: the API caller).
\* mid: another task stood between two deletes of its DEL when the call ran.
Observe(op, key, args, r, by, mid) ==
    /\ last' = [op |-> op, key |-> key, args |-> args, pre |-> Lookup(entries, key),
                t |-> now, ret |-> r.ret, seen |-> key \in expiredSeen,
                by |-> by, mid |-> mid]
    /\ expiredSeen' =
         CASE op = "read_string" /\ r.ret = None /\ key \in DOMAIN entries
              /\ entries[key].expires_at # None /\ entries[key].expires_at[1] <= now
                -> expiredSeen \cup {key}
           [] op = "write_string" -> expiredSeen \ {key}
           [] OTHER -> expiredSeen

Call(op, key, args) ==
    LET r == ApplyOp(op, entries, now, key, args) IN
    /\ FitsBound(r.state, key)
    /\ entries' = r.state
    /\ Observe(op, key, args, r, 0, FALSE)
    /\ UNCHANGED <<now, srvVars>>

-----------------------------------------------------------------------------
(* SpecDb: the keyspace driven through its API, one method call at a time.  *)

DbReadString  == /\ \E k \in DbKeys : Call("read_string", k, <<>>)
DbWriteString == /\ \E k \in DbKeys, v \in Vals, e \in {None} \cup {Some(now + d) : d \in TTLs} :
                        Call("write_string", k, <<v, e>>)
DbGetType     == /\ \E k \in DbKeys : Call("get_type", k, <<>>)
DbExists      == /\ \E k \in DbKeys : Call("exists", k, <<>>)
DbDelete      == /\ \E k \in DbKeys : Call("delete", k, <<>>)
DbLPush       == /\ \E k \in DbKeys, vs \in ArgLists : Call("lpush", k, <<vs>>)
DbRPush       == /\ \E k \in DbKeys, vs \in ArgLists : Call("rpush", k, <<vs>>)
DbLPop        == /\ \E k \in DbKeys : Call("lpop", k, <<>>)
DbRPop        == /\ \E k \in DbKeys : Call("rpop", k, <<>>)
DbLLen        == /\ \E k \in DbKeys : Call("llen", k, <<>>)
DbSAdd        == /\ \E k \in DbKeys, ms \in ArgLists : Call("sadd", k, <<ms>>)
DbSRem        == /\ \E k \in DbKeys, ms \in ArgLists : Call("srem", k, <<ms>>)
DbSIsMember   == /\ \E k \in DbKeys, m \in Vals : Call("sismember", k, <<m>>)
DbSCard       == /\ \E k \in DbKeys : Call("scard", k, <<>>)
DbHSet        == /\ \E k \in DbKeys, f \in Vals, v \in Vals : Call("hset", k, <<f, v>>)
DbHGet        == /\ \E k \in DbKeys, f \in Vals : Call("hget", k, <<f>>)
DbHDel        == /\ \E k \in DbKeys, fs \in ArgLists : Call("hdel", k, <<fs>>)
DbHExists     == /\ \E k \in DbKeys, f \in Vals : Call("hexists", k, <<f>>)
DbHLen        == /\ \E k \in DbKeys : Call("hlen", k, <<>>)
DbFlushDb     == /\ Call("flushdb", <<>>, <<>>)

NoCall == [op |-> "none", key |-> <<>>, args |-> <<>>, pre |-> None, t |-> 0,
           ret |-> None, seen |-> FALSE, by |-> 0, mid |-> FALSE]

\* Instant::now() is monotonic.  The observer forgets the call made before the tick.
Tick == /\ now < MaxTime
        /\ now' = now + 1
        /\ last' = NoCall
        /\ UNCHANGED <<entries, expiredSeen, srvVars>>

InitDb == /\ entries = EmptyMap
          /\ now = 0
          /\ last = NoCall
          /\ expiredSeen = {}

InitSrvIdle == /\ aof = <<>>
               /\ conn = <<>>
               /\ out = <<>>
               /\ hist = <<>>
               /\ logged = <<>>
               /\ applied = <<>>
               /\ reader = <<>>
               /\ hub = <<>>
               /\ main = <<>>

NextDb == \/ DbReadString \/ DbWriteString \/ DbGetType \/ DbExists \/ DbDelete
          \/ DbLPush \/ DbRPush \/ DbLPop \/ DbRPop \/ DbLLen
          \/ DbSAdd \/ DbSRem \/ DbSIsMember \/ DbSCard
          \/ DbHSet \/ DbHGet \/ DbHDel \/ DbHExists \/ DbHLen
          \/ DbFlushDb \/ Tick

\* A Db used through its methods alone: no server task runs.
InitApi == InitDb /\ InitSrvIdle

SpecDb == InitApi /\ [][NextDb]_vars

-----------------------------------------------------------------------------
(* SpecLRange: lrange called on every list, with every pair of indexes, in a  *)
(* build with and in a build without overflow checks.                         *)

ListsUpTo(n) == UNION {[1..m -> Vals] : m \in 0..n}

\* The keyspaces lrange is called on: k absent, k a string, k a list.
LRangeStores ==
    {EmptyMap, MapInsert(EmptyMap, <<"k">>, Entry(StringValue(<<"a">>), None))}
    \cup {MapInsert(EmptyMap, <<"k">>, Entry(ListValue(l), None)) : l \in ListsUpTo(MaxListLen)}

InitLRange == /\ entries \in LRangeStores
              /\ now = 0
              /\ last = NoCall
              /\ expiredSeen = {}
              /\ InitSrvIdle

\* A panic under the lock poisons the mutex: no later call gets to the keyspace.
DbLRange ==
    /\ last.ret # Panicked
    /\ \E k \in DbKeys, start \in Isize, stop \in Isize, overflow_checks \in BOOLEAN :
          LET r == lrange(entries, k, start, stop, overflow_checks) IN
          /\ entries' = r.state
          /\ Observe("lrange", k, <<start, stop, overflow_checks>>, r, 0, FALSE)
          /\ UNCHANGED <<now, srvVars>>

NextLRange == DbLRange

SpecLRange == InitLRange /\ [][NextLRange]_vars

-----------------------------------------------------------------------------
(* Claims about the keyspace *)

IsEmptyContainer(value) ==
    \/ value.type = "list" /\ value.list = <<>>
    \/ value.type = "set" /\ value.set = {}
    \/ value.type = "hash" /\ DOMAIN value.hash = {}

\* C1: no reachable keyspace holds an entry whose value is an empty list, set or
\* hash: the pop or remove that empties a container removes its entry.
C1_NoEmptyContainer ==
    \A k \in DOMAIN entries : ~IsEmptyContainer(entries[k].value)

PreExpired == last.pre # None /\ last.pre[1].expires_at # None
              /\ last.pre[1].expires_at[1] <= last.t

\* C7: a GET or EXISTS that meets an entry with expires_at <= now reports the key
\* absent and removes the entry in the same call; one that meets an entry whose
\* deadline is not reached reports it present (GET: with the stored bytes) and
\* leaves it as it was.
C7_ExpiredReadAbsent ==
    last.op \in {"read_string", "exists"} /\ last.pre # None =>
        IF PreExpired
        THEN /\ last.key \notin DOMAIN entries
             /\ last.ret = (IF last.op = "exists" THEN FALSE ELSE None)
        ELSE /\ Lookup(entries, last.key) = last.pre
             /\ last.op = "exists" => last.ret = TRUE
             /\ last.op = "read_string" /\ last.pre[1].value.type = "string"
                    => last.ret = Some(last.pre[1].value.bytes)

C7_Witness ==
    /\ last.op = "read_string" /\ PreExpired
    /\ last.pre[1].expires_at[1] = last.t
    /\ last.ret = None /\ last.key \notin DOMAIN entries

\* C8: TYPE on a key whose entry has expires_at <= now removes the entry and
\* reports none; TYPE reports one of string, list, set, hash, none.
C8_TypeLazyExpires ==
    last.op = "get_type" =>
        /\ last.ret \in {None, Some("string"), Some("list"), Some("set"), Some("hash")}
        /\ PreExpired => last.ret = None /\ last.key \notin DOMAIN entries

\* C9: once a GET of k has returned absent because k's entry had expired, every
\* later GET of k returns absent until a SET of k is executed.
C9_TtlMonotonic ==
    last.op = "read_string" /\ last.seen => last.ret = None

C9_Witness ==
    last.op = "read_string" /\ last.seen /\ last.pre # None /\ last.ret = None

\* C10: an operation that meets an expired entry under k returns what it returns,
\* and leaves under k what it leaves, on a keyspace where k is absent (stated for
\* the operations the claim names: LPUSH, RPUSH, SADD, HSET, LPOP, HGET, SCARD).
C10_ExpiredIsAbsent ==
    last.op \in {"lpush", "rpush", "sadd", "hset", "lpop", "hget", "scard"} /\ PreExpired =>
        LET r == ApplyOp(last.op, EmptyMap, last.t, last.key, last.args) IN
        /\ last.ret = r.ret
        /\ Lookup(entries, last.key) = Lookup(r.state, last.key)

\* C11: del of a key whose entry has expires_at <= now counts as the delete of an
\* absent key: it returns false, and the entry is gone afterwards.
C11_DeleteExpiredIsAbsent ==
    last.op = "delete" /\ PreExpired =>
        last.ret = FALSE /\ last.key \notin DOMAIN entries

\* The list an lpush met under its key (empty when the key was absent).
PreList == IF last.pre = None THEN <<>> ELSE last.pre[1].value.list

PreIsListOrAbsent == last.pre = None \/ last.pre[1].value.type = "list"

\* C12: LPUSH k v1 ... vn pushes each value to the head in argument order: the
\* list is afterwards vn ... v1 followed by what it held before.
C12_LPushHeadOrder ==
    last.op = "lpush" /\ PreIsListOrAbsent =>
        /\ last.key \in DOMAIN entries
        /\ entries[last.key].value = ListValue(Reverse(last.args[1]) \o PreList)

PreIsList == last.pre # None /\ last.pre[1].value.type = "list"

\* C13: lpush(k, [v1..vn]) on an absent key returns n and leaves v1 at the head
\* and vn last (lrange(k, 0, -1) = v1..vn); rpush(k, ws) on a list returns the new
\* length and puts ws at the tail; lpop returns the head and llen then reports
\* the remaining count.
C13_ListTest ==
    /\ last.op = "lpush" /\ last.pre = None =>
          /\ last.ret = Len(last.args[1])
          /\ \A oc \in BOOLEAN :
                lrange(entries, last.key, 0, -1, oc).ret = Some(last.args[1])
    /\ last.op = "rpush" /\ PreIsList =>
          /\ last.ret = Len(PreList) + Len(last.args[1])
          /\ entries[last.key].value = ListValue(PreList \o last.args[1])
    /\ last.op = "lpop" /\ PreIsList /\ PreList # <<>> =>
          /\ last.ret = Some(Head(PreList))
          /\ llen(entries, last.key).ret = Some(Len(PreList) - 1)

\* lpop takes the head of a list that an lpush of two values and an rpush built.
C13_Witness ==
    /\ last.op = "lpop" /\ PreIsList /\ PreList = <<<<"a">>, <<"b">>, <<"a">>>>
    /\ last.ret = Some(<<"a">>)
    /\ entries[last.key].value.list = <<<<"b">>, <<"a">>>>

\* The slice the claim describes: a negative index counts from the end, the low
\* end is clamped to 0 and the high end to len - 1.
ResolveIndex(x, len) == IF x < 0 THEN len + x ELSE x

ClampedSlice(list, i, j) ==
    LET lo == Max(ResolveIndex(i, Len(list)), 0)
        hi == Min(ResolveIndex(j, Len(list)), Len(list) - 1)
    IN  IF lo > hi THEN <<>> ELSE SubSeq(list, lo + 1, hi + 1)

\* C14: for every list and all i, j, the extreme values included, LRANGE(k, i, j)
\* returns the clamped slice; it never fails and never changes the list.
C14_LRangeClamp ==
    last.op = "lrange" /\ PreIsList =>
        /\ last.ret = Some(ClampedSlice(PreList, last.args[1], last.args[2]))
        /\ Lookup(entries, last.key) = last.pre

\* What holds of lrange: the same, in a build that wraps on overflow or for stop
\* below the largest value.
LRangeClampUnlessOverflow ==
    last.op = "lrange" /\ PreIsList /\ ~(last.args[3] /\ last.args[2] = IsizeMax) =>
        /\ last.ret = Some(ClampedSlice(PreList, last.args[1], last.args[2]))
        /\ Lookup(entries, last.key) = last.pre

\* SET replaces the entry under its key wholesale: the entry is afterwards the
\* string of this SET with the deadline of this SET, and TYPE answers string.
SetReplacesEntry ==
    /\ last.key \in DOMAIN entries
    /\ entries[last.key] = Entry(StringValue(last.args[1]), last.args[2])
    /\ get_type(entries, last.key).ret = Some("string")

\* C16 as stated: after SET k v [EX n], whatever k held, TYPE k is string, GET k
\* returns v, what k held is gone and the expiry is the one of this SET.
C16_SetReplacesAsStated ==
    last.op = "write_string" =>
        /\ SetReplacesEntry
        /\ read_string(entries, now, last.key).ret = Some(last.args[1])

\* C16 as amended: the same, where GET k returns v unless the deadline of this
\* SET is already reached (EX 0); then GET k returns absent.
C16_SetReplaces ==
    last.op = "write_string" =>
        /\ SetReplacesEntry
        /\ read_string(entries, now, last.key).ret =
              (IF last.args[2] # None /\ last.args[2][1] <= now
               THEN None ELSE Some(last.args[1]))

\* A SET without EX over a string that had a deadline: the deadline is cleared.
C16_Witness ==
    /\ last.op = "write_string" /\ last.args[2] = None
    /\ last.pre # None /\ last.pre[1].expires_at # None
    /\ last.pre[1].value.bytes # last.args[1]
    /\ entries[last.key] = Entry(StringValue(last.args[1]), None)

\* The set a call met under its key (empty when the key was absent).
PreSet == IF last.pre = None THEN {} ELSE last.pre[1].value.set

PreIsSetOrAbsent == last.pre = None \/ last.pre[1].value.type = "set"

\* SCARD is the number of members of s and SISMEMBER is true exactly of them.
SetReadsAgree(s) ==
    /\ scard(entries, last.key).ret = Cardinality(s)
    /\ \A m \in Vals : sismember(entries, last.key, m).ret = (m \in s)

\* C17: SADD returns the number of given members that were not in the set, a
\* member repeated in the call counted once; SREM returns the number of given
\* members that were in it; after either SCARD is the number of members and
\* SISMEMBER is 1 exactly for the members of the set.
C17_SetCounts ==
    /\ last.op = "sadd" /\ PreIsSetOrAbsent =>
          /\ last.ret = Cardinality(Range(last.args[1]) \ PreSet)
          /\ entries[last.key].value = SetValue(PreSet \cup Range(last.args[1]))
          /\ SetReadsAgree(PreSet \cup Range(last.args[1]))
    /\ last.op = "srem" /\ last.pre # None /\ PreIsSetOrAbsent =>
          /\ last.ret = Cardinality(Range(last.args[1]) \cap PreSet)
          /\ entries[last.key].value = SetValue(PreSet \ Range(last.args[1]))
          /\ SetReadsAgree(PreSet \ Range(last.args[1]))

\* SADD k a b a on an absent key returns 2.
C17_Witness ==
    /\ last.op = "sadd" /\ last.pre = None
    /\ last.args[1] = <<<<"a">>, <<"b">>, <<"a">>>>
    /\ last.ret = 2
    /\ scard(entries, last.key).ret = 2

-----------------------------------------------------------------------------
(* Frame *)

Simple(text)  == [tag |-> "Simple", text |-> text]
Error(text)   == [tag |-> "Error", text |-> text]
Integer(n)    == [tag |-> "Integer", n |-> n]
Bulk(data)    == [tag |-> "Bulk", data |-> data]
Array(items)  == [tag |-> "Array", items |-> items]
Null          == [tag |-> "Null"]

CR == "\r"
LF == "\n"
CRLF == <<CR, LF>>
\* a byte that is not valid UTF-8
BadByte == "xFF"

from_utf8(bytes) == IF BadByte \in Range(bytes) THEN None ELSE Some(bytes)

Digits == <<"0", "1", "2", "3", "4", "5", "6", "7", "8", "9">>
IsDigit(c) == \E i \in 1..10 : Digits[i] = c
DigitValue(c) == (CHOOSE i \in 1..10 : Digits[i] = c) - 1

\* n.to_string() of a number >= 0
RECURSIVE NatToString(_)
NatToString(n) ==
    IF n < 10 THEN <<Digits[n + 1]>>
    ELSE NatToString(n \div 10) \o <<Digits[(n % 10) + 1]>>

to_string(n) == IF n < 0 THEN <<"-">> \o NatToString(0 - n) ELSE NatToString(n)

RECURSIVE DigitsValue(_, _)
DigitsValue(s, acc) ==
    IF s = <<>> THEN acc ELSE DigitsValue(Tail(s), acc * 10 + DigitValue(Head(s)))

AllDigits(s) == s # <<>> /\ \A i \in DOMAIN s : IsDigit(s[i])

\* str::parse::<u64>, ::<usize>: an optional +, then digits (the model's numbers are
\* far from the width's end).
ParseUnsigned(s) ==
    LET d == IF s # <<>> /\ Head(s) = "+" THEN Tail(s) ELSE s IN
    IF AllDigits(d) THEN Some(DigitsValue(d, 0)) ELSE None

\* str::parse::<i64>, ::<isize>: an optional + or -, then digits.
ParseSigned(s) ==
    LET neg == s # <<>> /\ Head(s) = "-"
        d == IF s # <<>> /\ Head(s) \in {"+", "-"} THEN Tail(s) ELSE s IN
    IF AllDigits(d) THEN Some(IF neg THEN 0 - DigitsValue(d, 0) ELSE DigitsValue(d, 0))
    ELSE None

\* u64 and Instant's seconds at the model's width: the largest u64 and the largest
\* number of seconds an Instant holds (an i64)
U64Max == (2 ^ IsizeBits) - 1
InstantMax == IsizeMax

\* str::parse::<u64> of a command argument: a number above u64::MAX is an error
ParseU64(s) ==
    LET v == ParseUnsigned(s) IN
    IF v # None /\ v[1] > U64Max THEN None ELSE v

\* str::parse::<isize> of a command argument: a number outside isize is an error
ParseIsize(s) ==
    LET v == ParseSigned(s) IN
    IF v # None /\ v[1] \notin Isize THEN None ELSE v

LowerCase == <<"a", "b", "c", "d", "e", "f", "g", "h", "i", "j", "k", "l", "m",
               "n", "o", "p", "q", "r", "s", "t", "u", "v", "w", "x", "y", "z">>
UpperCase == <<"A", "B", "C", "D", "E", "F", "G", "H", "I", "J", "K", "L", "M",
               "N", "O", "P", "Q", "R", "S", "T", "U", "V", "W", "X", "Y", "Z">>
UpperChar(c) ==
    IF \E i \in 1..26 : LowerCase[i] = c
    THEN UpperCase[CHOOSE i \in 1..26 : LowerCase[i] = c] ELSE c
to_uppercase(s) == [i \in DOMAIN s |-> UpperChar(s[i])]

-----------------------------------------------------------------------------
(* Command::from_frame *)

Ok(v)  == [ok |-> TRUE, v |-> v]
Err(e) == [ok |-> FALSE, err |-> e]

\* Frame::Bulk(data) => from_utf8(data)?.to_string(), Frame::Simple(s) => s.clone(),
\* _ => Err
AsString(f, what) ==
    CASE f.tag = "Bulk" -> IF from_utf8(f.data) = None THEN Err(<<"invalid UTF-8 in", what>>)
                           ELSE Ok(f.data)
      [] f.tag = "Simple" -> Ok(f.text)
      [] OTHER -> Err(<<what, "must be a string">>)

\* Frame::Bulk(data) => data.clone(), Frame::Simple(s) => Bytes::from(s), _ => Err
AsBytes(f, what) ==
    CASE f.tag = "Bulk" -> Ok(f.data)
      [] f.tag = "Simple" -> Ok(f.text)
      [] OTHER -> Err(<<what, "must be a string">>)

\* The call panics: the task unwinds out of handle_connection.
Panics(msg) == [ok |-> FALSE, err |-> msg, panic |-> TRUE]
IsPanic(r) == ~r.ok /\ "panic" \in DOMAIN r

WrongArity(cmd) == Err(<<"ERR wrong number of arguments for", cmd, "command">>)
NotAnInteger == Err("ERR value is not an integer or out of range")

Command(name, key, args) == [name |-> name, key |-> key, args |-> args]

\* for i in 2..array.len(): the arguments from `i` on, each as a string (or as bytes)
RECURSIVE CollectArgs(_, _, _, _, _)
CollectArgs(array, i, acc, asString, what) ==
    IF i > Len(array) THEN Ok(acc)
    ELSE LET a == IF asString THEN AsString(array[i], what) ELSE AsBytes(array[i], what) IN
         IF ~a.ok THEN a ELSE CollectArgs(array, i + 1, Append(acc, a.v), asString, what)

\* the while loop over the options of SET; `i` is the 1-based place of the option
RECURSIVE SetOptions(_, _, _, _)
SetOptions(array, i, expires_at, t) ==
    IF i > Len(array) THEN Ok(expires_at)
    ELSE LET o == AsString(array[i], "option") IN
         IF ~o.ok THEN o
         ELSE IF to_uppercase(o.v) = <<"E", "X">>
         THEN IF i + 1 > Len(array) THEN Err("ERR syntax error")
              ELSE LET f == array[i + 1]
                       text == CASE f.tag = "Bulk" -> from_utf8(f.data)
                                 [] f.tag = "Simple" -> Some(f.text)
                                 [] OTHER -> None
                       secs == IF text = None THEN None ELSE ParseU64(text[1]) IN
                   IF f.tag = "Bulk" /\ text = None THEN Err(<<"invalid UTF-8 in", "seconds">>)
                   ELSE IF secs = None THEN NotAnInteger
                   \* Instant::now() + Duration::from_secs(seconds)
                   ELSE IF t + secs[1] > InstantMax
                   THEN Panics("overflow when adding duration to instant")
                   ELSE SetOptions(array, i + 2, Some(t + secs[1]), t)
         ELSE Err(<<"ERR syntax error near", to_uppercase(o.v)>>)

\* "GET key", "LPOP key", ...: exactly one argument, the key
KeyCommand(array, name, lower) ==
    IF Len(array) # 2 THEN WrongArity(lower)
    ELSE LET k == AsString(array[2], "key") IN
         IF ~k.ok THEN k ELSE Ok(Command(name, k.v, <<>>))

\* "LPUSH key value [value ...]", "SADD key member [member ...]", ...
KeyListCommand(array, name, lower, asString) ==
    IF Len(array) < 3 THEN WrongArity(lower)
    ELSE LET k == AsString(array[2], "key") IN
         IF ~k.ok THEN k
         ELSE LET a == CollectArgs(array, 3, <<>>, asString, "value") IN
              IF ~a.ok THEN a ELSE Ok(Command(name, k.v, <<a.v>>))

SetCommand(array, t) ==
    IF Len(array) < 3 THEN WrongArity("set")
    ELSE LET k == AsString(array[2], "key") IN
         IF ~k.ok THEN k
         ELSE LET v == AsBytes(array[3], "value") IN
              IF ~v.ok THEN v
              ELSE LET e == SetOptions(array, 4, None, t) IN
                   IF ~e.ok THEN e ELSE Ok(Command("Set", k.v, <<v.v, e.v>>))

DelCommand(array) ==
    IF Len(array) < 2 THEN WrongArity("del")
    ELSE LET a == CollectArgs(array, 2, <<>>, TRUE, "key") IN
         IF ~a.ok THEN a ELSE Ok(Command("Del", <<>>, a.v))

HSetCommand(array) ==
    IF Len(array) # 4 THEN WrongArity("hset")
    ELSE LET k == AsString(array[2], "key") IN
         IF ~k.ok THEN k
         ELSE LET f == AsString(array[3], "field") IN
              IF ~f.ok THEN f
              ELSE LET v == AsBytes(array[4], "value") IN
                   IF ~v.ok THEN v ELSE Ok(Command("HSet", k.v, <<f.v, v.v>>))

\* the start and the stop of LRANGE: s.parse::<isize>()
IndexArg(f, what) ==
    CASE f.tag = "Bulk" ->
             IF from_utf8(f.data) = None THEN Err(<<"invalid UTF-8 in", what>>)
             ELSE IF ParseIsize(f.data) = None THEN NotAnInteger
             ELSE Ok(ParseIsize(f.data)[1])
      [] f.tag = "Simple" ->
             IF ParseIsize(f.text) = None THEN NotAnInteger ELSE Ok(ParseIsize(f.text)[1])
      [] OTHER -> NotAnInteger

\* "LRANGE key start stop"
LRangeCommand(array) ==
    IF Len(array) # 4 THEN WrongArity("lrange")
    ELSE LET k == AsString(array[2], "key") IN
         IF ~k.ok THEN k
         ELSE LET start == IndexArg(array[3], "start index") IN
              IF ~start.ok THEN start
              ELSE LET stop == IndexArg(array[4], "stop index") IN
                   IF ~stop.ok THEN stop
                   ELSE Ok(Command("LRange", k.v, <<start.v, stop.v>>))

\* "PING [message]"
PingCommand(array) ==
    IF Len(array) = 1 THEN Ok(Command("Ping", <<>>, <<None>>))
    ELSE IF Len(array) = 2
    THEN LET m == AsBytes(array[2], "message") IN
         IF ~m.ok THEN m ELSE Ok(Command("Ping", <<>>, <<Some(m.v)>>))
    ELSE WrongArity("ping")

\* "PUBLISH channel message"
PublishCommand(array) ==
    IF Len(array) # 3 THEN WrongArity("publish")
    ELSE LET c == AsString(array[2], "channel") IN
         IF ~c.ok THEN c
         ELSE LET m == AsBytes(array[3], "message") IN
              IF ~m.ok THEN m ELSE Ok(Command("Publish", <<>>, <<c.v, m.v>>))

\* `t` is what Instant::now() returns while the frame is parsed.
from_frame(frame, t) ==
    IF frame.tag # "Array" THEN Err("command must be an array")
    ELSE IF frame.items = <<>> THEN Err("empty command")
    ELSE LET array == frame.items
             n == CASE array[1].tag = "Bulk" ->
                         IF from_utf8(array[1].data) = None
                         THEN Err(<<"invalid UTF-8 in", "command name">>)
                         ELSE Ok(to_uppercase(array[1].data))
                    [] array[1].tag = "Simple" -> Ok(to_uppercase(array[1].text))
                    [] OTHER -> Err("command name must be a string") IN
         IF ~n.ok THEN n
         ELSE CASE n.v = <<"S", "E", "T">> -> SetCommand(array, t)
                [] n.v = <<"G", "E", "T">> -> KeyCommand(array, "Get", "get")
                [] n.v = <<"D", "E", "L">> -> DelCommand(array)
                [] n.v = <<"E", "X", "I", "S", "T", "S">> -> KeyCommand(array, "Exists", "exists")
                [] n.v = <<"T", "Y", "P", "E">> -> KeyCommand(array, "Type", "type")
                [] n.v = <<"F", "L", "U", "S", "H", "D", "B">> ->
                       IF Len(array) # 1 THEN WrongArity("flushdb")
                       ELSE Ok(Command("FlushDb", <<>>, <<>>))
                [] n.v = <<"L", "P", "U", "S", "H">> -> KeyListCommand(array, "LPush", "lpush", FALSE)
                [] n.v = <<"R", "P", "U", "S", "H">> -> KeyListCommand(array, "RPush", "rpush", FALSE)
                [] n.v = <<"L", "P", "O", "P">> -> KeyCommand(array, "LPop", "lpop")
                [] n.v = <<"R", "P", "O", "P">> -> KeyCommand(array, "RPop", "rpop")
                [] n.v = <<"S", "A", "D", "D">> -> KeyListCommand(array, "SAdd", "sadd", TRUE)
                [] n.v = <<"S", "R", "E", "M">> -> KeyListCommand(array, "SRem", "srem", TRUE)
                [] n.v = <<"H", "S", "E", "T">> -> HSetCommand(array)
                [] n.v = <<"H", "D", "E", "L">> -> KeyListCommand(array, "HDel", "hdel", TRUE)
                [] n.v = <<"L", "R", "A", "N", "G", "E">> -> LRangeCommand(array)
                [] n.v = <<"L", "L", "E", "N">> -> KeyCommand(array, "LLen", "llen")
                [] n.v = <<"S", "C", "A", "R", "D">> -> KeyCommand(array, "SCard", "scard")
                [] n.v = <<"H", "L", "E", "N">> -> KeyCommand(array, "HLen", "hlen")
                [] n.v = <<"P", "I", "N", "G">> -> PingCommand(array)
                [] n.v = <<"P", "U", "B", "L", "I", "S", "H">> -> PublishCommand(array)
                [] OTHER -> Ok(Command("Unknown", <<>>, <<n.v>>))

IsWriteCommandWithoutPops(cmd) ==
    cmd.name \in {"Set", "Del", "FlushDb", "LPush", "RPush", "SAdd", "SRem", "HSet", "HDel"}

is_write_command(cmd) ==
    cmd.name \in {"Set", "Del", "FlushDb", "LPush", "RPush", "LPop", "RPop",
                  "SAdd", "SRem", "HSet", "HDel"}

-----------------------------------------------------------------------------
(* Command::execute and Command::replay *)

DbCall(op, key, args) == [op |-> op, key |-> key, args |-> args]

\* The calls of Db methods that execute makes for a command, in order; each call
\* takes and releases the keyspace lock.
DbCalls(cmd) ==
    CASE cmd.name = "Set"     -> <<DbCall("write_string", cmd.key, cmd.args)>>
      [] cmd.name = "Get"     -> <<DbCall("read_string", cmd.key, <<>>)>>
      [] cmd.name = "Del"     -> [i \in DOMAIN cmd.args |-> DbCall("delete", cmd.args[i], <<>>)]
      [] cmd.name = "Exists"  -> <<DbCall("exists", cmd.key, <<>>)>>
      [] cmd.name = "Type"    -> <<DbCall("get_type", cmd.key, <<>>)>>
      [] cmd.name = "FlushDb" -> <<DbCall("flushdb", <<>>, <<>>)>>
      [] cmd.name = "LPush"   -> <<DbCall("lpush", cmd.key, cmd.args)>>
      [] cmd.name = "RPush"   -> <<DbCall("rpush", cmd.key, cmd.args)>>
      [] cmd.name = "LPop"    -> <<DbCall("lpop", cmd.key, <<>>)>>
      [] cmd.name = "RPop"    -> <<DbCall("rpop", cmd.key, <<>>)>>
      [] cmd.name = "SAdd"    -> <<DbCall("sadd", cmd.key, cmd.args)>>
      [] cmd.name = "SRem"    -> <<DbCall("srem", cmd.key, cmd.args)>>
      [] cmd.name = "HSet"    -> <<DbCall("hset", cmd.key, cmd.args)>>
      [] cmd.name = "HDel"    -> <<DbCall("hdel", cmd.key, cmd.args)>>
      [] cmd.name = "LRange"  -> <<DbCall("lrange", cmd.key, cmd.args)>>
      [] cmd.name = "LLen"    -> <<DbCall("llen", cmd.key, <<>>)>>
      [] cmd.name = "SCard"   -> <<DbCall("scard", cmd.key, <<>>)>>
      [] cmd.name = "HLen"    -> <<DbCall("hlen", cmd.key, <<>>)>>
      [] OTHER                -> <<>>

CountTrue(rets) == Cardinality({i \in DOMAIN rets : rets[i]})

\* The response frame execute writes, from what its Db calls returned.
Response(cmd, rets) ==
    CASE cmd.name \in {"Set", "FlushDb"} -> Simple("OK")
      [] cmd.name \in {"Get", "LPop", "RPop"} ->
             IF rets[1] = None THEN Null ELSE Bulk(rets[1][1])
      [] cmd.name = "Del" -> Integer(CountTrue(rets))
      [] cmd.name \in {"Exists", "HSet"} -> Integer(IF rets[1] THEN 1 ELSE 0)
      [] cmd.name = "Type" -> Simple(IF rets[1] = None THEN "none" ELSE rets[1][1])
      [] cmd.name \in {"LPush", "RPush", "SAdd", "SRem", "HDel"} -> Integer(rets[1])
      [] cmd.name = "HGet" -> IF rets[1] = None THEN Null ELSE Bulk(rets[1][1])
      [] cmd.name = "LLen" -> Integer(IF rets[1] = None THEN 0 ELSE rets[1][1])
      [] cmd.name \in {"SCard", "HLen"} -> Integer(rets[1])
      [] cmd.name \in {"SIsMember", "HExists"} -> Integer(IF rets[1] THEN 1 ELSE 0)
      [] cmd.name \in {"LRange", "SMembers"} ->
             IF rets[1] = None THEN Array(<<>>)
             ELSE Array([i \in DOMAIN rets[1][1] |-> Bulk(rets[1][1][i])])
      [] cmd.name = "HGetAll" ->
             IF rets[1] = None THEN Array(<<>>)
             ELSE Array([i \in 1..(2 * Len(rets[1][1])) |->
                           Bulk(rets[1][1][(i + 1) \div 2][2 - (i % 2)])])
      [] cmd.name = "Ping" ->
             IF cmd.args[1] = None THEN Simple("PONG") ELSE Bulk(cmd.args[1][1])
      \* pubsub.publish(channel, message): no command subscribes, so the hub of
      \* the server has no channel and publish returns 0
      [] cmd.name = "Publish" -> Integer(0)
      [] OTHER -> Error(<<"ERR unknown command", cmd.args[1]>>)

\* The keyspace after the calls from the i-th on
RECURSIVE RunCalls(_, _, _, _)
RunCalls(calls, i, st, t) ==
    IF i > Len(calls) THEN st
    ELSE RunCalls(calls, i + 1,
                  ApplyOp(calls[i].op, st, t, calls[i].key, calls[i].args).state, t)

\* Command::replay: the write commands run their Db calls, the others do nothing.
replay(cmd, st, t) ==
    IF cmd.name \in {"Set", "Del", "FlushDb", "LPush", "RPush", "LPop", "RPop",
                     "SAdd", "SRem", "HSet", "HDel"}
    THEN RunCalls(DbCalls(cmd), 1, st, t)
    ELSE st

-----------------------------------------------------------------------------
(* Aof *)

RECURSIVE write_frame_recursive(_)
write_frame_recursive(frame) ==
    CASE frame.tag = "Simple"  -> <<"+">> \o frame.text \o CRLF
      [] frame.tag = "Error"   -> <<"-">> \o frame.text \o CRLF
      [] frame.tag = "Integer" -> <<":">> \o to_string(frame.n) \o CRLF
      [] frame.tag = "Bulk"    -> <<"$">> \o to_string(Len(frame.data)) \o CRLF
                                  \o frame.data \o CRLF
      [] frame.tag = "Null"    -> <<"$", "-", "1">> \o CRLF
      [] frame.tag = "Array"   ->
             LET F[i \in 0..Len(frame.items)] ==
                     IF i = 0 THEN <<>>
                     ELSE F[i - 1] \o write_frame_recursive(frame.items[i]) IN
             <<"*">> \o to_string(Len(frame.items)) \o CRLF \o F[Len(frame.items)]

serialize_frame(frame) == write_frame_recursive(frame)

\* Aof::append: the lock, write_all, and under Always sync_all
append(file, frame) == file \o serialize_frame(frame)

\* BufReader::lines(): the file cut at each LF, the LF dropped and one CR before it
\* too; a last line without LF counts; a line that is not UTF-8 is an Err item.
StripCR(l) == IF l # <<>> /\ l[Len(l)] = CR THEN SubSeq(l, 1, Len(l) - 1) ELSE l
LineItem(l, ended) ==
    IF from_utf8(l) = None THEN Err("stream did not contain valid UTF-8")
    ELSE Ok(IF ended THEN StripCR(l) ELSE l)

\* The k-th line runs from after the (k-1)-th LF to before the k-th LF, or to
\* the end of the file for a last line without LF.
Lines(bytes) ==
    LET lfs == {i \in DOMAIN bytes : bytes[i] = LF}
        n == Cardinality(lfs)
        nth(k) == IF k = 0 THEN 0
                  ELSE IF k > n THEN Len(bytes) + 1
                  ELSE CHOOSE i \in lfs : Cardinality({j \in lfs : j < i}) = k - 1
        count == IF nth(n) < Len(bytes) THEN n + 1 ELSE n IN
    [k \in 1..count |-> LineItem(SubSeq(bytes, nth(k - 1) + 1, nth(k) - 1), k <= n)]

\* Aof::parse_line on the line at `pos` of `lines`, `lines.next()` being the item
\* after the last one taken: the frame or an error, and the place of the next item.
Parsed(ok, frame, next) == [ok |-> ok, frame |-> frame, next |-> next]

RECURSIVE parse_line(_, _)
RECURSIVE ParseItems(_, _, _, _)

\* for _ in 0..count { lines.next() ... array.push(parse_line(..)?) }
ParseItems(lines, next, count, acc) ==
    IF count = 0 THEN Parsed(TRUE, Array(acc), next)
    ELSE IF next > Len(lines) THEN Parsed(FALSE, Null, next)
    ELSE IF ~lines[next].ok THEN Parsed(FALSE, Null, next + 1)
    ELSE LET r == parse_line(lines, next) IN
         IF ~r.ok THEN r
         ELSE ParseItems(lines, r.next, count - 1, Append(acc, r.frame))

parse_line(lines, pos) ==
    LET line == lines[pos].v
        rest == Tail(line) IN
    IF line = <<>> THEN Parsed(FALSE, Null, pos + 1)
    ELSE CASE Head(line) = "+" -> Parsed(TRUE, Simple(rest), pos + 1)
           [] Head(line) = "-" -> Parsed(TRUE, Error(rest), pos + 1)
           [] Head(line) = ":" ->
                  IF ParseSigned(rest) = None THEN Parsed(FALSE, Null, pos + 1)
                  ELSE Parsed(TRUE, Integer(ParseSigned(rest)[1]), pos + 1)
           [] Head(line) = "$" ->
                  IF ParseSigned(rest) = None THEN Parsed(FALSE, Null, pos + 1)
                  ELSE IF ParseSigned(rest)[1] = -1 THEN Parsed(TRUE, Null, pos + 1)
                  ELSE IF pos + 1 > Len(lines) THEN Parsed(FALSE, Null, pos + 1)
                  ELSE IF ~lines[pos + 1].ok THEN Parsed(FALSE, Null, pos + 2)
                  ELSE Parsed(TRUE, Bulk(lines[pos + 1].v), pos + 2)
           [] Head(line) = "*" ->
                  IF ParseUnsigned(rest) = None THEN Parsed(FALSE, Null, pos + 1)
                  ELSE ParseItems(lines, pos + 1, ParseUnsigned(rest)[1], <<>>)
           [] OTHER -> Parsed(FALSE, Null, pos + 1)

\* while let Some(Ok(line)) = lines.next() { if let Ok(frame) = parse_line(..) { push } }
RECURSIVE LoadFrom(_, _, _)
LoadFrom(lines, pos, frames) ==
    IF pos > Len(lines) THEN frames
    ELSE IF ~lines[pos].ok THEN frames
    ELSE LET r == parse_line(lines, pos) IN
         LoadFrom(lines, r.next, IF r.ok THEN Append(frames, r.frame) ELSE frames)

\* Aof::load
load(file) == LoadFrom(Lines(file), 1, <<>>)

\* main: for frame in frames { if let Ok(cmd) = from_frame(frame) { cmd.replay(&db) } }
\* on the keyspace `st`, at the time `t` of the restart.
RECURSIVE ReplayFrames(_, _, _, _)
ReplayFrames(frames, i, st, t) ==
    IF i > Len(frames) THEN st
    ELSE LET c == from_frame(frames[i], t) IN
         ReplayFrames(frames, i + 1, IF c.ok THEN replay(c.v, st, t) ELSE st, t)

\* The keyspace a server started at time `t` on the file rebuilds.
Restore(file, t) == ReplayFrames(load(file), 1, EmptyMap, t)

-----------------------------------------------------------------------------
(* frame.rs: Frame::parse over a buffer.  A cursor is the buffer and the      *)
(* number of bytes before the position.                                       *)

Incomplete == [tag |-> "Incomplete"]
Invalid(msg) == [tag |-> "Invalid", msg |-> msg]
\* a panic of the thread, in every build
Panic(msg) == [tag |-> "Panic", msg |-> msg]
Got(v, pos) == [tag |-> "Ok", v |-> v, pos |-> pos]

get_u8(buf, pos) ==
    IF pos >= Len(buf) THEN Incomplete ELSE Got(buf[pos + 1], pos + 1)

ReadLineLoneCR(buf, pos) ==
    LET idx == {i \in 0..(Len(buf) - pos - 1) :
                   /\ buf[pos + i + 1] = CR
                   /\ (pos + i + 2 > Len(buf) \/ buf[pos + i + 2] = LF)} IN
    IF idx = {} THEN Incomplete
    ELSE LET i == CHOOSE x \in idx : \A y \in idx : x <= y IN
         Got(SubSeq(buf, pos + 1, pos + i), pos + i + 2)

\* for i in 0..slice.len() { if i + 1 < slice.len() && slice[i] == b'\r' && ...
read_line(buf, pos) ==
    LET idx == {i \in 0..(Len(buf) - pos - 2) :
                   buf[pos + i + 1] = CR /\ buf[pos + i + 2] = LF} IN
    IF idx = {} THEN Incomplete
    ELSE LET i == CHOOSE x \in idx : \A y \in idx : x <= y IN
         Got(SubSeq(buf, pos + 1, pos + i), pos + i + 2)

read_until_crlf(buf, pos) ==
    LET r == read_line(buf, pos) IN
    IF r.tag = "Ok" THEN Got(<<>>, r.pos) ELSE r

read_decimal(buf, pos) ==
    LET r == read_line(buf, pos) IN
    IF r.tag # "Ok" THEN r
    ELSE IF from_utf8(r.v) = None THEN Invalid("invalid UTF-8 in decimal")
    ELSE IF ParseSigned(r.v) = None THEN Invalid("invalid decimal")
    ELSE Got(ParseSigned(r.v)[1], r.pos)

\* usize arithmetic.  A negative i64 cast to usize is 2^64 minus its magnitude;
\* here a negative number stands for that value.  A sum of such a value and a
\* small one overflows when the signed sum is not negative: a build with
\* overflow checks panics there, a build without them keeps the wrapped sum.
AddUsize(a, b) ==
    [sum |-> a + b, overflow |-> (a < 0 \/ b < 0) /\ a + b >= 0]

AddOverflow == Panic("attempt to add with overflow")

ReadNBytesToCRLF(buf, pos, n, overflow_checks) ==
    LET r == read_line(buf, pos) IN
    IF r.tag = "Ok" THEN Got(r.v, r.pos - 2) ELSE r

\* let end = start + n; if end > len { Incomplete }; &cursor.get_ref()[start..end]
read_n_bytes(buf, pos, n, overflow_checks) ==
    LET end == AddUsize(pos, n) IN
    IF end.overflow /\ overflow_checks THEN AddOverflow
    ELSE IF end.sum < 0 \/ end.sum > Len(buf) THEN Incomplete
    ELSE IF end.sum < pos THEN Panic("slice index starts after its end")
    ELSE Got(SubSeq(buf, pos + 1, end.sum), end.sum)

\* let new_pos = cursor.position() as usize + n; if new_pos > len { Incomplete }
skip(buf, pos, n, overflow_checks) ==
    LET new_pos == AddUsize(pos, n) IN
    IF new_pos.overflow /\ overflow_checks THEN AddOverflow
    ELSE IF new_pos.sum < 0 \/ new_pos.sum > Len(buf) THEN Incomplete
    ELSE Got(<<>>, new_pos.sum)

RECURSIVE check_complete(_, _, _)
RECURSIVE CheckItems(_, _, _, _)
\* for _ in 0..count { check_complete(cursor)?; }
CheckItems(buf, pos, count, overflow_checks) ==
    IF count <= 0 THEN Got(<<>>, pos)
    ELSE LET r == check_complete(buf, pos, overflow_checks) IN
         IF r.tag = "Ok" THEN CheckItems(buf, r.pos, count - 1, overflow_checks) ELSE r

check_complete(buf, pos, overflow_checks) ==
    LET b == get_u8(buf, pos) IN
    IF b.tag # "Ok" THEN b
    ELSE CASE b.v \in {"+", "-", ":"} -> read_until_crlf(buf, b.pos)
           [] b.v = "$" ->
                LET len == read_decimal(buf, b.pos) IN
                IF len.tag # "Ok" THEN len
                ELSE IF len.v = -1 THEN Got(<<>>, len.pos)
                ELSE LET n == AddUsize(len.v, 2) IN
                     IF n.overflow /\ overflow_checks THEN AddOverflow
                     ELSE skip(buf, len.pos, n.sum, overflow_checks)
           [] b.v = "*" ->
                LET count == read_decimal(buf, b.pos) IN
                IF count.tag # "Ok" THEN count
                ELSE IF count.v = -1 THEN Got(<<>>, count.pos)
                ELSE CheckItems(buf, count.pos, count.v, overflow_checks)
           [] OTHER -> Invalid("invalid frame type byte")

RECURSIVE parse_frame(_, _, _)
RECURSIVE ParseFrames(_, _, _, _, _)
\* for _ in 0..count { frames.push(parse_frame(cursor)?); }
ParseFrames(buf, pos, count, frames, overflow_checks) ==
    IF count <= 0 THEN Got(Array(frames), pos)
    ELSE LET r == parse_frame(buf, pos, overflow_checks) IN
         IF r.tag = "Ok"
         THEN ParseFrames(buf, r.pos, count - 1, Append(frames, r.v), overflow_checks)
         ELSE r

parse_frame(buf, pos, overflow_checks) ==
    LET b == get_u8(buf, pos) IN
    IF b.tag # "Ok" THEN b
    ELSE CASE b.v \in {"+", "-"} ->
                LET line == read_line(buf, b.pos) IN
                IF line.tag # "Ok" THEN line
                ELSE IF from_utf8(line.v) = None THEN Invalid("invalid UTF-8")
                ELSE Got(IF b.v = "+" THEN Simple(line.v) ELSE Error(line.v), line.pos)
           [] b.v = ":" ->
                LET num == read_decimal(buf, b.pos) IN
                IF num.tag # "Ok" THEN num ELSE Got(Integer(num.v), num.pos)
           [] b.v = "$" ->
                LET len == read_decimal(buf, b.pos) IN
                IF len.tag # "Ok" THEN len
                ELSE IF len.v = -1 THEN Got(Null, len.pos)
                ELSE LET data == read_n_bytes(buf, len.pos, len.v, overflow_checks) IN
                     IF data.tag # "Ok" THEN data
                     ELSE LET end == skip(buf, data.pos, 2, overflow_checks) IN
                          IF end.tag # "Ok" THEN end ELSE Got(Bulk(data.v), end.pos)
           [] b.v = "*" ->
                LET count == read_decimal(buf, b.pos) IN
                IF count.tag # "Ok" THEN count
                ELSE IF count.v = -1 THEN Got(Null, count.pos)
                \* Vec::with_capacity(count as usize) of a negative count
                ELSE IF count.v < -1 THEN Panic("capacity overflow")
                ELSE ParseFrames(buf, count.pos, count.v, <<>>, overflow_checks)
           [] OTHER -> Invalid("invalid frame type")

\* Frame::parse: Ok(Some(frame)) with the buffer advanced, Ok(None), or Err
ParsedFrame(frame, buf) == [tag |-> "Some", frame |-> frame, buffer |-> buf]
ParsedNone(buf) == [tag |-> "None", buffer |-> buf]
ParseErr(e, buf) == [tag |-> "Err", error |-> e, buffer |-> buf]
ParsePanic(e, buf) == [tag |-> "Panic", error |-> e, buffer |-> buf]

ParseAdvancesByParsed(buf, overflow_checks) ==
    LET f == parse_frame(buf, 0, overflow_checks) IN
    CASE f.tag = "Ok" -> ParsedFrame(f.v, SubSeq(buf, f.pos + 2, Len(buf)))
      [] f.tag = "Incomplete" -> ParsedNone(<<>>)
      [] f.tag = "Panic" -> ParsePanic(f, buf)
      [] OTHER -> ParseErr(f, buf)

\* len = cursor.position() after check_complete; parse_frame(..)?; buf.advance(len)
parse(buf, overflow_checks) ==
    LET c == check_complete(buf, 0, overflow_checks) IN
    CASE c.tag = "Ok" ->
             LET f == parse_frame(buf, 0, overflow_checks) IN
             CASE f.tag = "Ok" -> ParsedFrame(f.v, SubSeq(buf, c.pos + 1, Len(buf)))
               [] f.tag = "Panic" -> ParsePanic(f, buf)
               [] OTHER -> ParseErr(f, buf)
      [] c.tag = "Incomplete" -> ParsedNone(buf)
      [] c.tag = "Panic" -> ParsePanic(c, buf)
      [] OTHER -> ParseErr(c, buf)

\* connection.rs: Connection::write_value, the bytes it writes to the stream
RECURSIVE write_value(_)
write_value(frame) ==
    CASE frame.tag = "Simple"  -> <<"+">> \o frame.text \o CRLF
      [] frame.tag = "Error"   -> <<"-">> \o frame.text \o CRLF
      [] frame.tag = "Integer" -> <<":">> \o to_string(frame.n) \o CRLF
      [] frame.tag = "Null"    -> <<"$", "-", "1">> \o CRLF
      [] frame.tag = "Bulk"    -> <<"$">> \o to_string(Len(frame.data)) \o CRLF
                                  \o frame.data \o CRLF
      [] frame.tag = "Array"   ->
             LET F[i \in 0..Len(frame.items)] ==
                     IF i = 0 THEN <<>>
                     ELSE F[i - 1] \o write_value(frame.items[i]) IN
             <<"*">> \o to_string(Len(frame.items)) \o CRLF \o F[Len(frame.items)]

\* write_frame for each frame of a sequence, in order
RECURSIVE WriteFrames(_)
WriteFrames(frames) ==
    IF frames = <<>> THEN <<>> ELSE write_value(Head(frames)) \o WriteFrames(Tail(frames))

-----------------------------------------------------------------------------
(* Spec: the server.  Each connection task runs handle_connection: it reads  *)
(* a request frame, parses it, appends a write command to the AOF, executes  *)
(* it (its Db calls, one lock each) and writes the response.                 *)

Conns == {1, 2}

K == <<"k">>
J == <<"j">>
BulkArray(words) == Array([i \in DOMAIN words |-> Bulk(words[i])])

\* The request frames a client sends.
Requests == <<
    BulkArray(<<<<"S", "E", "T">>, K, <<"a">>>>),
    BulkArray(<<<<"s", "e", "t">>, K, <<"b">>, <<"E", "X">>, <<"1">>>>),
    BulkArray(<<<<"S", "E", "T">>, K, <<"a">>, <<"X", "X">>>>),
    BulkArray(<<<<"G", "E", "T">>>>),
    BulkArray(<<<<"G", "E", "T">>, K>>),
    BulkArray(<<<<"D", "E", "L">>, K, J>>),
    BulkArray(<<<<"R", "P", "U", "S", "H">>, J, <<"a">>>>),
    BulkArray(<<<<"L", "P", "O", "P">>, J>>),
    BulkArray(<<<<"F", "O", "O">>>>),
    BulkArray(<<<<"P", "U", "B", "L", "I", "S", "H">>, <<"c">>, <<"x">>>>),
    BulkArray(<<<<"L", "L", "E", "N">>, J>>),
    BulkArray(<<<<"G", "E", "T">>, <<BadByte>>>>),
    BulkArray(<<<<BadByte>>, K>>),
    BulkArray(<<<<"S", "E", "T">>, K, <<"a">>, <<"E", "X">>, <<"x">>>>),
    BulkArray(<<<<"S", "E", "T">>, K, <<"a">>, <<"E", "X">>, <<"-", "1">>>>),
    BulkArray(<<<<"S", "E", "T">>, K, <<"a">>, <<"E", "X">>, to_string(IsizeMax)>>),
    BulkArray(<<<<"S", "E", "T">>, K, <<"a">>, <<"E", "X">>, to_string(U64Max)>>),
    BulkArray(<<<<"L", "R", "A", "N", "G", "E">>, J, <<"0">>, to_string(IsizeMax)>>),
    BulkArray(<<<<"L", "R", "A", "N", "G", "E">>, J, to_string(IsizeMin), <<"-", "1">>>>),
    BulkArray(<<<<"L", "R", "A", "N", "G", "E">>, J, <<"0">>, <<"x">>>>) >>

\* The requests the clients of Spec send, and the requests the clients of
\* SpecArgs send: numeric arguments at and beyond the ends of their types, a
\* request of the wrong shape, an unknown command, a read and a write.
ClientRequests == {r \in DOMAIN Requests : Requests[r].items[1].data # <<"L", "R", "A", "N", "G", "E">>
                                          /\ (Len(Requests[r].items) = 5 => Requests[r].items[5].data = <<"1">>)}
ArgsRequests == (DOMAIN Requests \ ClientRequests)
                \cup {r \in DOMAIN Requests :
                         Requests[r].items[1].data \in {<<"s", "e", "t">>, <<"F", "O", "O">>,
                                                       <<"R", "P", "U", "S", "H">>}
                         \/ Requests[r] = BulkArray(<<<<"G", "E", "T">>>>)}

Idle == [pc |-> "read", req |-> 0, cmd |-> Command("Unknown", <<>>, <<>>), rets |-> <<>>]

InitSrv == /\ aof = <<>>
           /\ conn = [c \in Conns |-> Idle]
           /\ out = [c \in Conns |-> <<>>]
           /\ hist = [c \in Conns |-> <<>>]
           /\ logged = <<>>
           /\ applied = <<>>
           /\ reader = <<>>
           /\ hub = <<>>
           /\ main = <<>>

RequestsRead == Len(hist[1]) + Len(hist[2])

\* A write command's name for the observers: the task and the number of its request.
Tag(c) == <<c, Len(hist[c])>>

\* A task stands between two Db calls of one command (the deletes of a DEL).
MidCommand(c) == conn[c].pc = "exec" /\ conn[c].rets # <<>>

\* read_frame returns a frame, one of `requests`, and from_frame accepts it.
ReadFrom(c, requests) ==
    /\ conn[c].pc = "read"
    /\ RequestsRead < MaxRequests
    /\ \E r \in requests :
         LET p == from_frame(Requests[r], now) IN
         /\ p.ok
         /\ hist' = [hist EXCEPT ![c] = Append(@, r)]
         /\ conn' = [conn EXCEPT ![c] =
                [pc |-> IF is_write_command(p.v) THEN "append"
                        ELSE IF DbCalls(p.v) = <<>> THEN "write" ELSE "exec",
                 req |-> r, cmd |-> p.v, rets |-> <<>>]]
    /\ UNCHANGED <<dbVars, aof, out, logged, applied, reader, hub, main>>

ReadRequest(c) == ReadFrom(c, ClientRequests)

\* A server that appends the request frame to the AOF before it parses it to a
\* command
RejectAfterAppend(c, requests) ==
    /\ conn[c].pc = "read"
    /\ RequestsRead < MaxRequests
    /\ \E r \in requests :
         /\ ~from_frame(Requests[r], now).ok
         /\ hist' = [hist EXCEPT ![c] = Append(@, r)]
         /\ aof' = append(aof, Requests[r])
         /\ conn' = IF IsPanic(from_frame(Requests[r], now))
                    THEN [conn EXCEPT ![c].pc = "panicked"] ELSE conn
    /\ UNCHANGED <<dbVars, out, logged, applied, reader, hub, main>>

\* read_frame returns a frame, one of `requests`, and from_frame fails: the error
\* is logged, and the loop continues with the next read.  When from_frame panics
\* the task unwinds: it ends, and the socket is dropped.
RejectFrom(c, requests) ==
    /\ conn[c].pc = "read"
    /\ RequestsRead < MaxRequests
    /\ \E r \in requests :
         /\ ~from_frame(Requests[r], now).ok
         /\ hist' = [hist EXCEPT ![c] = Append(@, r)]
         /\ conn' = IF IsPanic(from_frame(Requests[r], now))
                    THEN [conn EXCEPT ![c].pc = "panicked"] ELSE conn
    /\ UNCHANGED <<dbVars, aof, out, logged, applied, reader, hub, main>>

RejectRequest(c) == RejectFrom(c, ClientRequests)

\* What a peer sends that is no frame: a type byte that is none of + - : $ *,
\* a bulk length that is no number.
InvalidInputs == { <<"!">> \o CRLF, <<"$", "a">> \o CRLF }

\* read_frame returns Err: Frame::parse fails with Invalid on the bytes in the
\* buffer, Connection::parse_frame makes it an io::Error and handle_connection
\* returns it through `?`; the task ends and the socket is dropped.
ReadInvalid(c) ==
    /\ conn[c].pc = "read"
    /\ \E bytes \in InvalidInputs : \E overflow_checks \in BOOLEAN :
         LET r == parse(bytes, overflow_checks) IN
         r.tag = "Err" /\ r.error.tag = "Invalid"
    /\ conn' = [conn EXCEPT ![c].pc = "error"]
    /\ UNCHANGED <<dbVars, aof, out, hist, logged, applied, reader, hub, main>>

\* The socket fails: read_frame (read_buf) or write_frame returns an io::Error,
\* which handle_connection and execute return through `?`; the task ends.
IoError(c) ==
    /\ conn[c].pc \in {"read", "write"}
    /\ conn' = [conn EXCEPT ![c].pc = "error"]
    /\ UNCHANGED <<dbVars, aof, out, hist, logged, applied, reader, hub, main>>

\* read_frame returns None: the client has closed the connection.
Disconnect(c) ==
    /\ conn[c].pc = "read"
    /\ conn' = [conn EXCEPT ![c].pc = "closed"]
    /\ UNCHANGED <<dbVars, aof, out, hist, logged, applied, reader, hub, main>>

\* aof_writer.append(&frame)
AppendAof(c) ==
    /\ conn[c].pc = "append"
    /\ aof' = append(aof, Requests[conn[c].req])
    /\ logged' = Append(logged, Tag(c))
    /\ conn' = [conn EXCEPT ![c].pc = "exec"]
    /\ UNCHANGED <<dbVars, out, hist, applied, reader, hub, main>>

\* A task has panicked inside a Db method, while it held the lock: the Mutex is
\* poisoned, and lock() returns Err to every later caller.
Poisoned == \E d \in Conns : conn[d].pc = "panicked_locked"

\* One call of a Db method by a task; lrange computes as the build does.
DbApply(call) ==
    IF call.op = "lrange"
    THEN lrange(entries, call.key, call.args[1], call.args[2], main.overflow_checks)
    ELSE ApplyOp(call.op, entries, now, call.key, call.args)

\* execute: the next Db call of the command, by a task at `at`.
\* self.shared.lock().unwrap() panics when the Mutex is poisoned; a panic inside
\* the method poisons it.
ExecAt(c, at) ==
    /\ conn[c].pc = at
    /\ IF Poisoned
       THEN /\ conn' = [conn EXCEPT ![c].pc = "panicked"]
            /\ UNCHANGED <<entries, last, expiredSeen, applied>>
       ELSE LET calls == DbCalls(conn[c].cmd)
                i == Len(conn[c].rets) + 1
                call == calls[i]
                r == DbApply(call) IN
            /\ FitsBound(r.state, call.key)
            /\ entries' = r.state
            /\ Observe(call.op, call.key, call.args, r, c, \E d \in Conns \ {c} : MidCommand(d))
            /\ applied' = IF i = 1 /\ is_write_command(conn[c].cmd)
                          THEN Append(applied, Tag(c)) ELSE applied
            /\ conn' = [conn EXCEPT ![c].rets = Append(@, r.ret),
                                    ![c].pc = IF call.op = "lrange" /\ r.ret = Panicked
                                              THEN "panicked_locked"
                                              ELSE IF i = Len(calls) THEN "write" ELSE "exec"]
    /\ UNCHANGED <<now, aof, out, hist, logged, reader, hub>>

\* A Db call as one step: the lock is taken and released within it
ExecCall(c) == ExecAt(c, "exec") /\ UNCHANGED main

\* execute: dst.write_frame(&response), then back to the top of the loop
WriteResponse(c) ==
    /\ conn[c].pc = "write"
    /\ out' = [out EXCEPT ![c] =
                  Append(@, [for |-> Len(hist[c]), frame |-> Response(conn[c].cmd, conn[c].rets)])]
    /\ conn' = [conn EXCEPT ![c] = Idle]
    /\ UNCHANGED <<dbVars, aof, hist, logged, applied, reader, hub, main>>

Init == InitDb /\ InitSrv

Next == \/ \E c \in Conns : ReadRequest(c)
        \/ \E c \in Conns : RejectRequest(c)
        \/ \E c \in Conns : ReadInvalid(c)
        \/ \E c \in Conns : Disconnect(c)
        \/ \E c \in Conns : AppendAof(c)
        \/ \E c \in Conns : ExecCall(c)
        \/ \E c \in Conns : WriteResponse(c)
        \/ Tick

Spec == Init /\ [][Next]_vars

-----------------------------------------------------------------------------
(* SpecArgs: the server with clients that send numeric arguments, in a build *)
(* with and in a build without overflow checks.                              *)

ReadArgs(c) == ReadFrom(c, ArgsRequests)

RejectArgs(c) == RejectFrom(c, ArgsRequests)

InitArgs ==
    /\ entries = EmptyMap /\ now = 0 /\ last = NoCall /\ expiredSeen = {}
    /\ aof = <<>>
    /\ conn = [c \in Conns |-> Idle]
    /\ out = [c \in Conns |-> <<>>]
    /\ hist = [c \in Conns |-> <<>>]
    /\ logged = <<>> /\ applied = <<>> /\ reader = <<>> /\ hub = <<>>
    /\ \E overflow_checks \in BOOLEAN : main = [overflow_checks |-> overflow_checks]

NextArgs == \/ \E c \in Conns : ReadArgs(c)
            \/ \E c \in Conns : RejectArgs(c)
            \/ \E c \in Conns : ReadInvalid(c)
            \/ \E c \in Conns : IoError(c)
            \/ \E c \in Conns : Disconnect(c)
            \/ \E c \in Conns : AppendAof(c)
            \/ \E c \in Conns : ExecCall(c)
            \/ \E c \in Conns : WriteResponse(c)
            \/ Tick

SpecArgs == InitArgs /\ [][NextArgs]_vars

-----------------------------------------------------------------------------
(* Claims about the server *)

\* No task is inside a command.
Ended == {"closed", "error", "panicked", "panicked_locked"}

Quiescent == \A c \in Conns : conn[c].pc \in {"read"} \cup Ended

AcceptedWrite(r) ==
    LET p == from_frame(Requests[r], 0) IN p.ok /\ is_write_command(p.v)

OnlyWrites == \A c \in Conns : \A i \in DOMAIN hist[c] : AcceptedWrite(hist[c][i])

\* C2: after any sequence of write commands run by the server on an empty keyspace,
\* loading the AOF and replaying it on an empty keyspace gives the server's
\* keyspace: the same keys, values and expiry deadlines.
C2_ReplayEquivalence ==
    Quiescent /\ OnlyWrites => Restore(aof, now) = entries

IsPrefix(s, t) == Len(s) <= Len(t) /\ \A i \in DOMAIN s : s[i] = t[i]

\* C3: the write commands take effect on the keyspace in the order of their
\* frames in the AOF.
C3_AofOrderIsApplyOrder == IsPrefix(applied, logged)

\* C4: a command takes effect atomically: no task calls the keyspace while
\* another task stands between two keyspace calls of one command (DEL k1 k2).
C4_CommandAtomic == ~last.mid

\* The i-th request of connection c has been handled to its end.
Handled(c, i) == i < Len(hist[c]) \/ (i = Len(hist[c]) /\ conn[c].pc \in {"read"} \cup Ended)

Rejected(r) == ~from_frame(Requests[r], 0).ok

\* C5: a request with a command-shape error is answered with an Error frame on
\* its connection, and the connection stays open.
C5_ShapeErrorAnswered ==
    \A c \in Conns : \A i \in DOMAIN hist[c] :
        Rejected(hist[c][i]) /\ Handled(c, i) =>
            \E j \in DOMAIN out[c] : out[c][j].for = i /\ out[c][j].frame.tag = "Error"

\* C6: on a connection the i-th response answers the i-th request, rejected
\* requests included: one response is written for each request read.
C6_ResponsePerRequest ==
    \A c \in Conns :
        /\ \A j \in DOMAIN out[c] : out[c][j].for = j
        /\ \A i \in DOMAIN hist[c] : Handled(c, i) => i \in DOMAIN out[c]

\* The commands the specification calls mutating, by the name on the wire
MutatingNames ==
    { <<"S", "E", "T">>, <<"D", "E", "L">>, <<"F", "L", "U", "S", "H", "D", "B">>,
      <<"L", "P", "U", "S", "H">>, <<"R", "P", "U", "S", "H">>, <<"L", "P", "O", "P">>,
      <<"R", "P", "O", "P">>, <<"S", "A", "D", "D">>, <<"S", "R", "E", "M">>,
      <<"H", "S", "E", "T">>, <<"H", "D", "E", "L">> }

\* The request parses to a command of the mutating set.
MutatingRequest(r) ==
    /\ from_frame(Requests[r], 0).ok
    /\ to_uppercase(Requests[r].items[1].data) \in MutatingNames

\* The requests a server appends to its file
LoggedRequests == {r \in ClientRequests : MutatingRequest(r)}

\* The bytes Aof::append writes for each request
RequestBytes == [r \in DOMAIN Requests |-> serialize_frame(Requests[r])]

\* The bytes of the frames of the logged requests, in the order of the appends
RECURSIVE FramesOf(_)
FramesOf(tags) ==
    IF tags = <<>> THEN <<>>
    ELSE RequestBytes[hist[Head(tags)[1]][Head(tags)[2]]] \o FramesOf(Tail(tags))

NotUtf8Request(r) ==
    \E i \in {1, 2} \cap DOMAIN Requests[r].items : BadByte \in Range(Requests[r].items[i].data)

\* The task of c has just read a request that is not UTF-8 where text is required.
ReadsNotUtf8(c) == hist'[c] # hist[c] /\ NotUtf8Request(hist'[c][Len(hist'[c])])

\* The task of c ends on an error; the keyspace, the file and the other
\* connections are as they were.
ClosesAlone(c) ==
    /\ conn'[c].pc = "error"
    /\ UNCHANGED <<dbVars, aof>>
    /\ \A d \in Conns \ {c} : conn'[d] = conn[d] /\ out'[d] = out[d] /\ hist'[d] = hist[d]

\* A closed connection processes no request and writes no response.
StaysClosed(c) ==
    conn[c].pc = "error" => conn'[c] = conn[c] /\ hist'[c] = hist[c] /\ out'[c] = out[c]

\* C30: a protocol error on a connection (a malformed frame, or bytes that are
\* not UTF-8 in a command name or a key) closes that connection: its task
\* processes no further request, and the keyspace and the other connections are
\* unaffected.
C30_ProtocolErrorCloses ==
    [][\A c \in Conns :
          /\ ReadsNotUtf8(c) => ClosesAlone(c)
          /\ conn[c].pc # "error" /\ conn'[c].pc = "error" => ClosesAlone(c)
          /\ StaysClosed(c)]_vars

\* The same for malformed frames only
InvalidFrameCloses ==
    [][\A c \in Conns :
          /\ conn[c].pc # "error" /\ conn'[c].pc = "error" => ClosesAlone(c)
          /\ StaysClosed(c)]_vars

\* A connection that has read a request that is not UTF-8 where text is
\* required reads a later request.
ReadsOnAfterNotUtf8 ==
    \E c \in Conns : \E i \in DOMAIN hist[c] : NotUtf8Request(hist[c][i]) /\ i < Len(hist[c])

-----------------------------------------------------------------------------
(* Claims about numeric arguments, failing tasks and rejected requests *)

\* The numeric arguments of a request: the n of SET k v EX n, the s and e of
\* LRANGE k s e
NumericArgs(r) ==
    LET items == Requests[r].items
        name == to_uppercase(items[1].data) IN
    IF name = <<"S", "E", "T">> /\ Len(items) = 5 /\ to_uppercase(items[4].data) = <<"E", "X">>
    THEN <<items[5].data>>
    ELSE IF name = <<"L", "R", "A", "N", "G", "E">> /\ Len(items) = 4
    THEN <<items[3].data, items[4].data>>
    ELSE <<>>

\* A signed decimal of the width of the model's integers
ValidSigned(s) == ParseSigned(s) # None /\ ParseSigned(s)[1] \in Isize

ValidNumbers(r) == \A a \in DOMAIN NumericArgs(r) : ValidSigned(NumericArgs(r)[a])

\* The frames written in answer to the i-th request of connection c
Answers(c, i) == {out[c][j].frame : j \in {j \in DOMAIN out[c] : out[c][j].for = i}}

\* The task of connection c is through with its i-th request and is alive
Served(c, i) == i < Len(hist[c]) \/ (i = Len(hist[c]) /\ conn[c].pc = "read")

FailedTasks == {c \in Conns : conn[c].pc \in {"panicked", "panicked_locked"}}

\* C31: a request whose numeric arguments are valid signed decimals is accepted
\* and answered without an error, no task fails, and an executed SET k v EX n
\* leaves the deadline n seconds after the time the request was handled at; a
\* request with another numeric argument is answered with ERR value is not an
\* integer or out of range and is neither executed nor appended.
C31_NumericArguments ==
    /\ FailedTasks = {}
    /\ \A c \in Conns : \A i \in DOMAIN hist[c] :
          NumericArgs(hist[c][i]) # <<>> /\ Served(c, i) =>
              IF ValidNumbers(hist[c][i])
              THEN \E f \in Answers(c, i) : f.tag # "Error"
              ELSE /\ Error(NotAnInteger.err) \in Answers(c, i)
                   /\ \A j \in DOMAIN applied : applied[j] # <<c, i>>
                   /\ \A j \in DOMAIN logged : logged[j] # <<c, i>>
    /\ last.op = "write_string" /\ conn[last.by].pc = "write"
       /\ NumericArgs(conn[last.by].req) # <<>> /\ ValidNumbers(conn[last.by].req) /\ last.key \in DOMAIN entries =>
           /\ entries[last.key].expires_at # None
           /\ entries[last.key].expires_at[1]
                  - ParseSigned(NumericArgs(conn[last.by].req)[1])[1] \in 0..now

\* C32: the failure of a task (a socket error, a panic in from_frame, a panic
\* inside a Db method under the lock) stays in that task: a task that executes
\* a command goes on to the Db call and to the response, and fails only by a
\* panic of its own call.
C32_FailureConfined ==
    [][\A c \in Conns :
         conn[c].pc = "exec" /\ conn'[c].pc # "exec" =>
             \/ conn'[c].pc = "write"
             \/ conn'[c].pc = "panicked_locked" /\ last'.by = c /\ last'.op = "lrange"]_vars

\* A task fails at lock().unwrap() because another task has poisoned the Mutex
FailsOnPoisonedLock ==
    \E c \in Conns : /\ conn[c].pc = "panicked" /\ Len(hist[c]) > 0
                     /\ conn[c].req = hist[c][Len(hist[c])]
                     /\ ~IsPanic(from_frame(Requests[conn[c].req], now))
                     /\ Poisoned

\* Failures that leave the lock alone are confined: while the Mutex is not
\* poisoned a task that executes a command goes on, whatever the other tasks
\* have come to.
UnpoisonedFailureConfined ==
    [][\A c \in Conns :
         ~Poisoned /\ conn[c].pc = "exec" /\ conn'[c].pc # "exec" =>
             \/ conn'[c].pc = "write"
             \/ conn'[c].pc = "panicked_locked" /\ last'.by = c /\ last'.op = "lrange"]_vars

\* The step is the read of a request of connection c that from_frame rejects
RejectStep(c) ==
    /\ hist'[c] # hist[c]
    /\ ~from_frame(Requests[hist'[c][Len(hist'[c])]], now).ok

\* The step is one of connection c's task on a request with an unknown command name
UnknownStep(c) ==
    /\ conn'[c] # conn[c] \/ out'[c] # out[c]
    /\ \/ conn[c].pc # "read" /\ conn[c].cmd.name = "Unknown"
       \/ conn'[c].pc # "read" /\ conn'[c].cmd.name = "Unknown"

\* C38: the steps of a task on a request that is rejected (a command-shape
\* error, an argument that does not parse, an unknown command name) leave the
\* keyspace, with every entry's expiry, and the bytes of the AOF as they were;
\* an unknown command is answered with ERR unknown command '<cmd>'.
C38_RejectedNoEffect ==
    [][\A c \in Conns :
         /\ RejectStep(c) \/ UnknownStep(c) => UNCHANGED <<entries, aof>>
         /\ conn[c].pc = "write" /\ conn[c].cmd.name = "Unknown" /\ out'[c] # out[c] =>
               out'[c][Len(out'[c])].frame =
                   Error(<<"ERR unknown command",
                           to_uppercase(Requests[conn[c].req].items[1].data)>>)]_vars

\* A request with an unknown command name has been answered and one with an
\* argument that is no number has been rejected, and the keyspace holds an entry
\* with a deadline and the AOF a frame.
C38_Witness ==
    /\ \E k \in DOMAIN entries : entries[k].expires_at # None
    /\ aof # <<>>
    /\ \E c \in Conns : \E j \in DOMAIN out[c] :
           /\ Requests[hist[c][out[c][j].for]].items[1].data = <<"F", "O", "O">>
           /\ out[c][j].frame.tag = "Error"
    /\ \E c \in Conns : \E i \in DOMAIN hist[c] :
           NumericArgs(hist[c][i]) # <<>> /\ ~ValidNumbers(hist[c][i])
           /\ from_frame(Requests[hist[c][i]], now) = NotAnInteger

-----------------------------------------------------------------------------
(* SpecAof: Aof::append called by the connection tasks, and the task that     *)
(* start_background_sync spawns.  main is the Aof: its policy, the holder of  *)
(* the Mutex around the File, the length of the file at the last successful   *)
(* sync_all, and the background task.  aof is the bytes of the file.  logged  *)
(* has one record for each call of append, in the order the calls took the    *)
(* lock, with the number of bytes of the frame written; out has the results.  *)

AofSyncPolicy == {"Always", "EverySecond", "No"}

SyncTask == Cardinality(Conns) + 1

\* An append that syncs under every policy but No
SyncsUnlessNo(sync_policy) == sync_policy # "No"

\* if self.sync_policy == AofSyncPolicy::Always
SyncsOnAppend(sync_policy) == sync_policy = "Always"

\* if self.sync_policy != AofSyncPolicy::EverySecond { return; } tokio::spawn(..)
start_background_sync(sync_policy) == IF sync_policy = "EverySecond" THEN "tick" ELSE "none"

\* The requests whose frames the tasks append: frames of two lengths, two of them
\* with the same first bytes
AofRequests == {r \in LoggedRequests : Requests[r].items[1].data \in {<<"S", "E", "T">>, <<"D", "E", "L">>}}

AofIdle == [pc |-> "idle", req |-> 0, off |-> 0]

InitAof ==
    /\ entries = EmptyMap /\ now = 0 /\ last = NoCall /\ expiredSeen = {}
    /\ aof = <<>>
    /\ conn = [c \in Conns |-> AofIdle]
    /\ out = [c \in Conns |-> <<>>]
    /\ hist = [c \in Conns |-> <<>>]
    /\ logged = <<>> /\ applied = <<>> /\ reader = <<>> /\ hub = <<>>
    /\ \E sync_policy \in AofSyncPolicy :
          main = [sync_policy |-> sync_policy, lock |-> None, synced |-> 0,
                  bg |-> start_background_sync(sync_policy), ticks |-> 0,
                  bg_syncs |-> 0, append_syncs |-> 0]

Appends == Len(hist[1]) + Len(hist[2])

\* The record of the call of append that task c is in
Current(c) == CHOOSE i \in DOMAIN logged : logged[i].by = c /\ logged[i].n = Len(hist[c])

\* An append that does not take the lock
AofEnterUnlocked(c) ==
    /\ conn[c].pc = "idle"
    /\ Appends < MaxAppends
    /\ \E r \in AofRequests :
         /\ conn' = [conn EXCEPT ![c] = [pc |-> "write", req |-> r, off |-> 0]]
         /\ hist' = [hist EXCEPT ![c] = Append(@, r)]
         /\ logged' = Append(logged, [by |-> c, n |-> Len(hist[c]) + 1, req |-> r, len |-> 0])
    /\ main' = [main EXCEPT !.lock = Some(c)]
    /\ UNCHANGED <<dbVars, aof, out, applied, reader, hub>>

\* append: let mut file = self.file.lock().unwrap(); the frame is serialized
AofEnter(c) ==
    /\ conn[c].pc = "idle"
    /\ Appends < MaxAppends
    /\ main.lock = None
    /\ \E r \in AofRequests :
         /\ conn' = [conn EXCEPT ![c] = [pc |-> "write", req |-> r, off |-> 0]]
         /\ hist' = [hist EXCEPT ![c] = Append(@, r)]
         /\ logged' = Append(logged, [by |-> c, n |-> Len(hist[c]) + 1, req |-> r, len |-> 0])
    /\ main' = [main EXCEPT !.lock = Some(c)]
    /\ UNCHANGED <<dbVars, aof, out, applied, reader, hub>>

\* file.write_all(&serialized): one write(2) of its loop; the file is opened with
\* append(true), so the bytes go to the end of the file.
AofWrite(c) ==
    /\ conn[c].pc = "write"
    /\ LET bytes == RequestBytes[conn[c].req]
           rest == Len(bytes) - conn[c].off IN
       \E n \in {Min(rest, WriteChunk), rest} :
         /\ aof' = aof \o SubSeq(bytes, conn[c].off + 1, conn[c].off + n)
         /\ logged' = [logged EXCEPT ![Current(c)].len = @ + n]
         /\ conn' = [conn EXCEPT ![c].off = @ + n,
                                 ![c].pc = IF n < rest THEN "write"
                                           ELSE IF SyncsOnAppend(main.sync_policy) THEN "sync"
                                           ELSE "return"]
    /\ UNCHANGED <<dbVars, out, hist, applied, reader, hub, main>>

\* The result of a call of append: the length of the file and of its synced part
\* at the return
AofResult(ok) == [ok |-> ok, end |-> Len(aof), synced |-> main.synced]

\* write_all returns Err (the disk is full): append returns it through `?`, and
\* the guard is dropped.  The bytes already written stay in the file.
AofWriteFails(c) ==
    /\ conn[c].pc = "write"
    /\ conn' = [conn EXCEPT ![c] = AofIdle]
    /\ out' = [out EXCEPT ![c] = Append(@, AofResult(FALSE))]
    /\ main' = [main EXCEPT !.lock = None]
    /\ UNCHANGED <<dbVars, aof, hist, logged, applied, reader, hub>>

\* file.sync_all()? under Always
AofSync(c) ==
    /\ conn[c].pc = "sync"
    /\ conn' = [conn EXCEPT ![c].pc = "return"]
    /\ main' = [main EXCEPT !.synced = Len(aof), !.append_syncs = @ + 1]
    /\ UNCHANGED <<dbVars, aof, out, hist, logged, applied, reader, hub>>

\* sync_all returns Err: append returns it through `?`
AofSyncFails(c) ==
    /\ conn[c].pc = "sync"
    /\ conn' = [conn EXCEPT ![c] = AofIdle]
    /\ out' = [out EXCEPT ![c] = Append(@, AofResult(FALSE))]
    /\ main' = [main EXCEPT !.lock = None, !.append_syncs = @ + 1]
    /\ UNCHANGED <<dbVars, aof, hist, logged, applied, reader, hub>>

\* Ok(()): the guard is dropped
AofReturn(c) ==
    /\ conn[c].pc = "return"
    /\ conn' = [conn EXCEPT ![c] = AofIdle]
    /\ out' = [out EXCEPT ![c] = Append(@, AofResult(TRUE))]
    /\ main' = [main EXCEPT !.lock = None]
    /\ UNCHANGED <<dbVars, aof, hist, logged, applied, reader, hub>>

\* interval.tick().await completes
SyncTick ==
    /\ main.bg = "tick"
    /\ main.ticks < MaxTicks
    /\ main' = [main EXCEPT !.bg = "due", !.ticks = @ + 1]
    /\ UNCHANGED <<dbVars, srvVarsButMain>>

\* if let Ok(file) = self.file.lock()
SyncLock ==
    /\ main.bg = "due"
    /\ main.lock = None
    /\ main' = [main EXCEPT !.bg = "locked", !.lock = Some(SyncTask)]
    /\ UNCHANGED <<dbVars, srvVarsButMain>>

\* let _ = file.sync_all(); the result is dropped, then the guard
SyncFile ==
    /\ main.bg = "locked"
    /\ \E synced \in {main.synced, Len(aof)} :
          main' = [main EXCEPT !.bg = "tick", !.lock = None, !.synced = synced,
                               !.bg_syncs = @ + 1]
    /\ UNCHANGED <<dbVars, srvVarsButMain>>

NextAof == \/ \E c \in Conns : AofEnter(c)
           \/ \E c \in Conns : AofWrite(c)
           \/ \E c \in Conns : AofWriteFails(c)
           \/ \E c \in Conns : AofSync(c)
           \/ \E c \in Conns : AofSyncFails(c)
           \/ \E c \in Conns : AofReturn(c)
           \/ SyncTick
           \/ SyncLock
           \/ SyncFile

SpecAof == InitAof /\ [][NextAof]_vars

-----------------------------------------------------------------------------
(* Claims about the appends *)

\* The bytes of the file, were each call's bytes in one piece, in the order the
\* calls took the lock
RECURSIVE PiecesFrom(_)
PiecesFrom(i) ==
    IF i > Len(logged) THEN <<>>
    ELSE SubSeq(RequestBytes[logged[i].req], 1, logged[i].len) \o PiecesFrom(i + 1)

WholeFrame(i) == logged[i].len = Len(RequestBytes[logged[i].req])

\* The call of record i has returned Err / is in write_all
FailedAppend(i) ==
    LET c == logged[i].by IN logged[i].n <= Len(out[c]) /\ ~out[c][logged[i].n].ok
WritingAppend(i) ==
    LET c == logged[i].by IN logged[i].n = Len(hist[c]) /\ conn[c].pc = "write"

\* C33: the file is the bytes of the calls of append, each call's bytes in one
\* piece, in the order the calls took the lock; at most one call is under way;
\* the piece of a call is the whole frame unless the call is in write_all or its
\* write has failed; each call has one piece, and the pieces of one task are in
\* the order of its requests.
C33_AppendsAtFrameBoundaries ==
    /\ aof = PiecesFrom(1)
    /\ Cardinality({c \in Conns : conn[c].pc # "idle"}) <= 1
    /\ \A i \in DOMAIN logged : WholeFrame(i) \/ FailedAppend(i) \/ WritingAppend(i)
    /\ \A i, j \in DOMAIN logged :
          i < j /\ logged[i].by = logged[j].by => logged[i].n < logged[j].n
    /\ \A i \in DOMAIN logged : logged[i].req = hist[logged[i].by][logged[i].n]
    /\ Len(logged) = Appends

\* Three whole frames of the two tasks are in the file, the second task's frame
\* between two frames of the first, and every call has returned Ok.
C33_Witness ==
    /\ Len(logged) = Cardinality(Conns) + 1
    /\ logged[1].by = 1 /\ logged[2].by = 2 /\ logged[Len(logged)].by = 1
    /\ \A i \in DOMAIN logged : WholeFrame(i)
    /\ \A c \in Conns : conn[c].pc = "idle" /\ \A j \in DOMAIN out[c] : out[c][j].ok
    /\ logged[1].req # logged[2].req
    /\ aof = RequestBytes[logged[1].req] \o RequestBytes[logged[2].req]
                 \o RequestBytes[logged[Len(logged)].req]

\* The step is one of a call of append
AppendStep == \E c \in Conns : conn'[c] # conn[c]

\* C35: under Always an append that returns Ok returns with the whole file, its
\* frame included, synced; under EverySecond and No no step of an append syncs;
\* the background task exists under EverySecond only, and it calls sync_all
\* once for each tick of its interval, holding the lock of the file.
C35_DurabilityPolicy ==
    [][/\ \A c \in Conns : \A j \in DOMAIN out'[c] :
             main.sync_policy = "Always" /\ out'[c][j].ok =>
                 out'[c][j].synced >= out'[c][j].end
       /\ main.sync_policy # "Always" /\ AppendStep =>
             main'.synced = main.synced /\ main'.append_syncs = 0
       /\ main.sync_policy # "EverySecond" => main'.bg = "none" /\ main'.bg_syncs = 0
       /\ main'.bg_syncs # main.bg_syncs =>
             /\ main.lock = Some(SyncTask)
             /\ main'.bg_syncs = main.bg_syncs + 1
       /\ main'.bg_syncs <= main'.ticks /\ main'.ticks <= main'.bg_syncs + 1]_vars

\* Under EverySecond an append has returned Ok with its frame not synced, and the
\* background task has synced the file since.
C35_Witness ==
    /\ main.sync_policy = "EverySecond"
    /\ \E c \in Conns : \E j \in DOMAIN out[c] : out[c][j].ok /\ out[c][j].synced < out[c][j].end
    /\ main.bg_syncs > 0 /\ main.synced = Len(aof) /\ aof # <<>>

\* Under Always an append has returned Ok, its frame synced
AlwaysSynced ==
    /\ main.sync_policy = "Always"
    /\ \E c \in Conns : \E j \in DOMAIN out[c] :
          out[c][j].ok /\ out[c][j].synced = out[c][j].end /\ out[c][j].end > 0

-----------------------------------------------------------------------------
(* SpecLoad: request frames are appended to an empty file with Aof::append,   *)
(* and the file is read back with Aof::load.  logged is the frames appended,  *)
(* out the frames load returned.                                              *)

\* The payloads of the bulk strings: plain, empty, a CR, an LF, a line end
\* between two bytes, a byte that is not UTF-8
Payloads == {<<"a">>, <<>>, <<CR>>, <<LF>>, <<"a", CR, LF, "b">>, <<BadByte>>}

InitLoad ==
    /\ entries = EmptyMap /\ now = 0 /\ last = NoCall /\ expiredSeen = {}
    /\ aof = <<>> /\ logged = <<>> /\ out = None
    /\ conn = <<>> /\ hist = <<>> /\ applied = <<>> /\ reader = <<>> /\ hub = <<>>
    /\ main = <<>>

\* aof.append(&frame) on the frame of SET k <payload>
AppendFrame ==
    /\ out = None
    /\ Len(logged) < MaxAofPieces
    /\ \E payload \in Payloads :
         LET frame == BulkArray(<<<<"S", "E", "T">>, K, payload>>) IN
         /\ aof' = append(aof, frame)
         /\ logged' = Append(logged, frame)
    /\ UNCHANGED <<dbVars, conn, out, hist, applied, reader, hub, main>>

\* Aof::load(path)
LoadFile ==
    /\ out = None
    /\ out' = Some(load(aof))
    /\ UNCHANGED <<dbVars, aof, conn, hist, logged, applied, reader, hub, main>>

NextLoad == AppendFrame \/ LoadFile

SpecLoad == InitLoad /\ [][NextLoad]_vars

\* C34: load returns the frames that were appended, in the order of the appends,
\* whatever bytes their payloads hold.
C34_LoadReturnsAppended == out # None => out[1] = logged

\* The payload of each appended frame is free of LF and is UTF-8
LineSafe == \A i \in DOMAIN logged :
                LET payload == logged[i].items[Len(logged[i].items)].data IN
                LF \notin Range(payload) /\ from_utf8(payload) # None

\* Frames whose payloads are free of LF and are UTF-8 (the empty payload and the
\* CR among them) are read back as they were appended.
LoadReturnsLineSafe == out # None /\ LineSafe => out[1] = logged

\* A file of three such frames has been read back
LoadedLineSafe ==
    /\ out # None /\ LineSafe /\ Len(logged) = MaxAofPieces
    /\ {logged[i].items[Len(logged[i].items)].data : i \in DOMAIN logged} = {<<"a">>, <<>>, <<CR>>}

-----------------------------------------------------------------------------
(* SpecLock: the connection tasks with the Mutex of the keyspace in view.     *)
(* main is the holder of the lock.  A Db method is two steps: lock().unwrap() *)
(* and the work on the map up to the return, where the guard is dropped.      *)

\* The requests of the clients: a write, a read, a command of two Db calls
LockRequests == {r \in ClientRequests : Requests[r] \in {BulkArray(<<<<"S", "E", "T">>, K, <<"a">>>>),
                                                        BulkArray(<<<<"G", "E", "T">>, K>>),
                                                        BulkArray(<<<<"D", "E", "L">>, K, J>>)}}

InitLock ==
    /\ entries = EmptyMap /\ now = 0 /\ last = NoCall /\ expiredSeen = {}
    /\ aof = <<>>
    /\ conn = [c \in Conns |-> Idle]
    /\ out = [c \in Conns |-> <<>>]
    /\ hist = [c \in Conns |-> <<>>]
    /\ logged = <<>> /\ applied = <<>> /\ reader = <<>> /\ hub = <<>>
    /\ main = [db_lock |-> None]

ReadLocking(c) == ReadFrom(c, LockRequests)

\* let mut state = self.shared.lock().unwrap(), first line of each Db method
DbLock(c) ==
    /\ conn[c].pc = "exec"
    /\ main.db_lock = None
    /\ main' = [main EXCEPT !.db_lock = Some(c)]
    /\ conn' = [conn EXCEPT ![c].pc = "locked"]
    /\ UNCHANGED <<dbVars, aof, out, hist, logged, applied, reader, hub>>

\* A Db method that hands its guard to execute, which drops it at its end
DbWorkKeepsGuard(c) == ExecAt(c, "locked") /\ UNCHANGED main

\* The body of the Db method and its return: the guard goes out of scope
DbWork(c) == ExecAt(c, "locked") /\ main' = [main EXCEPT !.db_lock = None]

NextLock == \/ \E c \in Conns : ReadLocking(c)
            \/ \E c \in Conns : AppendAof(c)
            \/ \E c \in Conns : DbLock(c)
            \/ \E c \in Conns : DbWork(c)
            \/ \E c \in Conns : WriteResponse(c)
            \/ \E c \in Conns : Disconnect(c)

SpecLock == InitLock /\ [][NextLock]_vars

\* A task is blocked on its socket (read_frame, write_frame) or writes the AOF
AtIo(c) == conn[c].pc \in {"read", "write", "append"}

\* C37: a task that holds the lock of the keyspace is inside a Db method, at
\* work on the map: no task holds it while it reads from or writes to its
\* socket or writes the AOF; so a task that waits for the lock waits for a task
\* that needs no client to go on.
C37_LockOnlyInMemory ==
    /\ \A c \in Conns : main.db_lock = Some(c) => conn[c].pc = "locked" /\ ~AtIo(c)
    /\ \A c \in Conns : conn[c].pc = "locked" => main.db_lock = Some(c)
    /\ \A c \in Conns : conn[c].pc = "exec" /\ main.db_lock # None =>
          \E d \in Conns \ {c} : main.db_lock = Some(d) /\ ENABLED DbWork(d)

\* A task is at work under the lock while the other task, its command executed
\* and logged, is held up writing the response to its client.
C37_Witness ==
    \E c, d \in Conns :
        /\ main.db_lock = Some(c) /\ conn[c].pc = "locked"
        /\ conn[d].pc = "write" /\ conn[d].rets # <<>> /\ aof # <<>>

-----------------------------------------------------------------------------
(* SpecReplay: main at startup.  The AOF it finds holds frames that earlier   *)
(* runs appended and bytes that are no frame: a frame cut short by a crash,   *)
(* a line of another kind, a line that is not UTF-8.                          *)

\* The requests whose frames are in the file
Frames(r) == [good |-> TRUE, r |-> r, bytes |-> RequestBytes[r]]
NoFrame(bytes) == [good |-> FALSE, r |-> 0, bytes |-> bytes]

\* SET k a without its last item (a torn write), a line with no frame type, a
\* bulk header whose length is no number, a line that is not UTF-8
BadPieces ==
    { NoFrame(<<"*", "3">> \o CRLF \o <<"$", "3">> \o CRLF \o <<"S", "E", "T">> \o CRLF
              \o <<"$", "1">> \o CRLF \o K \o CRLF),
      NoFrame(<<"x">> \o CRLF),
      NoFrame(<<"$", "a">> \o CRLF),
      NoFrame(<<BadByte>> \o CRLF) }

Pieces == {Frames(r) : r \in LoggedRequests} \cup BadPieces

RECURSIVE BytesOf(_)
BytesOf(pieces) ==
    IF pieces = <<>> THEN <<>> ELSE Head(pieces).bytes \o BytesOf(Tail(pieces))

InitReplay ==
    /\ InitDb
    /\ conn = <<>> /\ out = <<>> /\ hist = <<>> /\ logged = <<>> /\ applied = <<>>
    /\ reader = <<>> /\ hub = <<>>
    /\ \E n \in 0..MaxAofPieces : \E pieces \in [1..n -> Pieces] :
          /\ aof = BytesOf(pieces)
          /\ main = [pc |-> "load", frames |-> <<>>, i |-> 1, pieces |-> pieces,
                     executed |-> <<>>, rebuilt |-> <<>>]

\* Aof::load("appendonly.aof")
LoadAof ==
    /\ main.pc = "load"
    /\ main' = [main EXCEPT !.pc = "replay", !.frames = load(aof), !.i = 1]
    /\ UNCHANGED <<dbVars, aof, conn, out, hist, logged, applied, reader, hub>>

\* cmd.replay(&db) writes nothing to the file
replay_log(file, frame) == file

\* for frame in frames { if let Ok(cmd) = Command::from_frame(frame) { cmd.replay(&db) } }
ReplayFrame ==
    /\ main.pc = "replay" /\ main.i <= Len(main.frames)
    /\ LET frame == main.frames[main.i]
           cmd == from_frame(frame, now) IN
       /\ entries' = IF cmd.ok THEN replay(cmd.v, entries, now) ELSE entries
       /\ aof' = IF cmd.ok THEN replay_log(aof, frame) ELSE aof
       /\ main' = [main EXCEPT !.i = @ + 1,
                               !.executed = IF cmd.ok THEN Append(@, frame) ELSE @]
    /\ UNCHANGED <<now, last, expiredSeen, conn, out, hist, logged, applied, reader, hub>>

\* info!("AOF replay completed"); main goes on to bind and accept
ReplayDone ==
    /\ main.pc = "replay" /\ main.i > Len(main.frames)
    /\ main' = [main EXCEPT !.pc = "serve", !.rebuilt = Append(@, entries)]
    /\ UNCHANGED <<dbVars, aof, conn, out, hist, logged, applied, reader, hub>>

\* The server stops and is started again: a new Db, the same file
Restart ==
    /\ main.pc = "serve" /\ Len(main.rebuilt) <= MaxRestarts
    /\ entries' = EmptyMap
    /\ last' = NoCall /\ expiredSeen' = {}
    /\ main' = [main EXCEPT !.pc = "load", !.frames = <<>>, !.i = 1, !.executed = <<>>]
    /\ UNCHANGED <<now, aof, conn, out, hist, logged, applied, reader, hub>>

NextReplay == LoadAof \/ ReplayFrame \/ ReplayDone \/ Restart \/ Tick

SpecReplay == InitReplay /\ [][NextReplay]_vars

-----------------------------------------------------------------------------
(* Claims about the replay *)

\* The frames of the pieces before the first piece that is no frame
RECURSIVE FramesBeforeBad(_)
FramesBeforeBad(pieces) ==
    IF pieces = <<>> \/ ~Head(pieces).good THEN <<>>
    ELSE <<Requests[Head(pieces).r]>> \o FramesBeforeBad(Tail(pieces))

\* C28: replay stops at the first frame of the file that fails to parse: the
\* frames before it are replayed in file order, and no frame after it is.
C28_ReplayStopsAtBadFrame ==
    /\ main.pc = "replay" => IsPrefix(main.executed, FramesBeforeBad(main.pieces))
    /\ main.pc = "serve" => main.executed = FramesBeforeBad(main.pieces)

\* The same for a file with no bad piece, and for a file that ends at its first
\* bad piece
ReplaysWholeFile ==
    (\A i \in DOMAIN main.pieces : main.pieces[i].good \/ i = Len(main.pieces)) =>
        /\ main.pc = "replay" => IsPrefix(main.executed, FramesBeforeBad(main.pieces))
        /\ main.pc = "serve" => main.executed = FramesBeforeBad(main.pieces)

\* C29: replay runs the logged commands in file order on an empty keyspace and
\* appends nothing to the file, so the file is what it was before the replay
\* and every restart rebuilds the same keyspace.
C29_ReplayIdempotent ==
    /\ aof = BytesOf(main.pieces)
    /\ (\A i \in DOMAIN main.pieces : main.pieces[i].good) =>
          IsPrefix(main.executed, FramesBeforeBad(main.pieces))
    /\ \A i \in DOMAIN main.rebuilt : main.rebuilt[i] = main.rebuilt[1]

ExpiresAtErased(st) == [k \in DOMAIN st |-> [st[k] EXCEPT !.expires_at = None]]

\* The same with the expiry deadlines left out of the comparison
ReplayIdempotentButDeadlines ==
    /\ aof = BytesOf(main.pieces)
    /\ (\A i \in DOMAIN main.pieces : main.pieces[i].good) =>
          IsPrefix(main.executed, FramesBeforeBad(main.pieces))
    /\ \A i \in DOMAIN main.rebuilt :
          ExpiresAtErased(main.rebuilt[i]) = ExpiresAtErased(main.rebuilt[1])

-----------------------------------------------------------------------------
(* Claims about the responses to keyspace commands *)

\* The command that calls each Db method, and the type of value the method works on.
CommandOf(op) ==
    CASE op = "read_string" -> "Get"     [] op = "lpush" -> "LPush"
      [] op = "rpush" -> "RPush"         [] op = "lpop" -> "LPop"
      [] op = "rpop" -> "RPop"           [] op = "llen" -> "LLen"
      [] op = "sadd" -> "SAdd"           [] op = "srem" -> "SRem"
      [] op = "sismember" -> "SIsMember" [] op = "scard" -> "SCard"
      [] op = "hset" -> "HSet"           [] op = "hget" -> "HGet"
      [] op = "hdel" -> "HDel"           [] op = "hexists" -> "HExists"
      [] op = "hlen" -> "HLen"

TypeOf(op) ==
    CASE op = "read_string" -> "string"
      [] op \in {"lpush", "rpush", "lpop", "rpop", "llen"} -> "list"
      [] op \in {"sadd", "srem", "sismember", "scard"} -> "set"
      [] op \in {"hset", "hget", "hdel", "hexists", "hlen"} -> "hash"

TypedOps == {"read_string", "lpush", "rpush", "lpop", "rpop", "llen", "sadd", "srem",
             "sismember", "scard", "hset", "hget", "hdel", "hexists", "hlen"}

\* The response to the command of the last call
LastResponse == Response(Command(CommandOf(last.op), last.key, last.args), <<last.ret>>)

ResponseTo(name, ret) == Response(Command(name, last.key, <<>>), <<ret>>)

WrongTyped == last.op \in TypedOps /\ last.pre # None
              /\ last.pre[1].value.type # TypeOf(last.op)

\* C15: on a key that holds a value of another type, GET, LPOP, RPOP and HGET
\* answer Null; LLEN, SCARD, HLEN, SISMEMBER, HEXISTS and the typed writes LPUSH,
\* RPUSH, SADD, SREM, HSET, HDEL answer 0; LRANGE, SMEMBERS and HGETALL answer the
\* empty array; the typed writes leave the entry (value, type, expiry) as it was.
C15_WrongTypeLenient ==
    WrongTyped =>
        /\ LastResponse = (IF last.op \in {"read_string", "lpop", "rpop", "hget"}
                           THEN Null ELSE Integer(0))
        /\ last.op \in {"lpush", "rpush", "lpop", "rpop", "sadd", "srem", "hset", "hdel"}
              => Lookup(entries, last.key) = last.pre
        /\ last.pre[1].value.type # "list" =>
              \A i \in {IsizeMin, -1, 0, 1, IsizeMax}, j \in {IsizeMin, -1, 0, 1, IsizeMax},
                 oc \in BOOLEAN :
                 ResponseTo("LRange", lrange(entries, last.key, i, j, oc).ret) = Array(<<>>)
        /\ last.pre[1].value.type # "set" =>
              ResponseTo("SMembers", smembers(entries, last.key, <<>>).ret) = Array(<<>>)
        /\ last.pre[1].value.type # "hash" =>
              ResponseTo("HGetAll", hgetall(entries, last.key, <<>>).ret) = Array(<<>>)

\* HSET meets a string with a deadline that has not passed, answers 0 and leaves it.
C15_Witness ==
    /\ WrongTyped /\ last.op = "hset"
    /\ last.pre[1].value.type = "string" /\ last.pre[1].expires_at = Some(last.t + 1)
    /\ LastResponse = Integer(0)
    /\ Lookup(entries, last.key) = last.pre

\* The hash a call met under its key (empty when the key was absent).
PreHash == IF last.pre = None THEN EmptyMap ELSE last.pre[1].value.hash

PreIsHashOrAbsent == last.pre = None \/ last.pre[1].value.type = "hash"

\* C18: HSET k f v answers 1 when f was not in the hash (k absent included) and 0
\* when it overwrote f; afterwards HGET k f is v, HEXISTS k f is 1 and HLEN k has
\* grown by one only in the first case; HDEL answers the number of given fields
\* that were in the hash.
C18_HashCounts ==
    /\ last.op = "hset" /\ PreIsHashOrAbsent =>
          LET new == last.args[1] \notin DOMAIN PreHash IN
          /\ LastResponse = Integer(IF new THEN 1 ELSE 0)
          /\ ResponseTo("HGet", hget(entries, last.key, last.args[1]).ret) = Bulk(last.args[2])
          /\ ResponseTo("HExists", hexists(entries, last.key, last.args[1]).ret) = Integer(1)
          /\ ResponseTo("HLen", hlen(entries, last.key).ret) =
                Integer(Cardinality(DOMAIN PreHash) + (IF new THEN 1 ELSE 0))
    /\ last.op = "hdel" /\ last.pre # None /\ PreIsHashOrAbsent =>
          /\ LastResponse = Integer(Cardinality(Range(last.args[1]) \cap DOMAIN PreHash))
          /\ entries[last.key].value.type = "hash"
          /\ DOMAIN entries[last.key].value.hash = DOMAIN PreHash \ Range(last.args[1])

\* HSET overwrites a field that held another value: it answers 0 and HGET gives
\* the new value.
C18_Witness ==
    /\ last.op = "hset" /\ last.pre # None /\ PreIsHashOrAbsent
    /\ last.args[1] \in DOMAIN PreHash /\ PreHash[last.args[1]] # last.args[2]
    /\ LastResponse = Integer(0)
    /\ hget(entries, last.key, last.args[1]).ret = Some(last.args[2])

\* C39: a list is a double-ended queue.  RPUSH puts its values at the tail in
\* argument order and returns the new length; LPOP returns and removes the head
\* (so the values of an RPUSH come back in insertion order), RPOP returns and
\* removes the last element (so they come back in reverse order); a pop removes
\* the returned element and nothing else; LLEN is the number of elements pushed
\* less the number popped, 0 for a list that was never pushed to.
C39_ListIsDeque ==
    /\ last.op = "rpush" /\ PreIsListOrAbsent =>
          /\ entries[last.key].value = ListValue(PreList \o last.args[1])
          /\ last.ret = Len(PreList) + Len(last.args[1])
    /\ last.op = "lpop" /\ PreIsList /\ PreList # <<>> =>
          /\ last.ret = Some(Head(PreList))
          /\ entries[last.key].value = ListValue(Tail(PreList))
    /\ last.op = "rpop" /\ PreIsList /\ PreList # <<>> =>
          /\ last.ret = Some(PreList[Len(PreList)])
          /\ entries[last.key].value = ListValue(SubSeq(PreList, 1, Len(PreList) - 1))
    /\ last.op \in {"lpop", "rpop"} /\ PreIsListOrAbsent /\ PreList = <<>> =>
          last.ret = None /\ Lookup(entries, last.key) = last.pre
    /\ last.op = "llen" /\ PreIsListOrAbsent =>
          /\ LastResponse = Integer(Len(PreList))
          /\ Lookup(entries, last.key) = last.pre
    /\ last.op \in {"rpush", "lpop", "rpop"} /\ PreIsListOrAbsent /\ last.key \in DOMAIN entries =>
          ResponseTo("LLen", llen(entries, last.key).ret)
              = Integer(Len(entries[last.key].value.list))

\* RPOP takes b from the list a b and leaves a.
C39_Witness ==
    /\ last.op = "rpop" /\ PreIsList /\ PreList = <<<<"a">>, <<"b">>>>
    /\ last.ret = Some(<<"b">>)
    /\ entries[last.key].value.list = <<<<"a">>>>

TypedWrites == {"lpush", "rpush", "lpop", "rpop", "sadd", "srem", "hset", "hdel"}

\* C40: only a string entry carries an expiry deadline.  A typed write on an
\* absent key creates its entry with no deadline, and a typed write on a key
\* that holds an entry leaves the deadline of the entry as it was.
C40_OnlyStringsExpire ==
    /\ \A k \in DOMAIN entries :
          entries[k].expires_at # None => entries[k].value.type = "string"
    /\ last.op \in TypedWrites /\ last.key \in DOMAIN entries =>
          entries[last.key].expires_at
              = (IF last.pre = None THEN None ELSE last.pre[1].expires_at)

\* SADD on a string with a deadline leaves the string and its deadline.
C40_Witness ==
    /\ last.op = "sadd" /\ last.pre # None
    /\ last.pre[1].value.type = "string" /\ last.pre[1].expires_at # None
    /\ Lookup(entries, last.key) = last.pre

-----------------------------------------------------------------------------
(* SpecCodec: a peer writes frames with write_frame; the bytes arrive in the  *)
(* Connection's buffer a chunk at a time; read_frame calls Frame::parse.      *)

\* Frames whose Simple and Error texts hold no CR and no LF
CodecFrames ==
    { Simple(<<"O", "K">>), Error(<<"E">>), Integer(-1), Integer(10),
      Bulk(<<>>), Bulk(<<CR, LF>>), Null, Array(<<>>),
      Array(<<Array(<<Integer(1)>>), Bulk(<<"a", CR, LF>>), Null>>) }

\* Frames whose Simple or Error text holds CR LF
BrokenTextFrames == { Simple(<<"a", CR, LF, "b">>), Error(<<CR, LF, "+">>) }

SentFrames == CodecFrames \cup BrokenTextFrames

\* input: the bytes the peer sends; wire: those that have not arrived yet.
\* chunk: the bytes one read_buf brings; 0 stands for all the bytes there are.
\* overflow_checks: whether the build panics on integer overflow.
NewReader(sent, wire, chunk, overflow_checks) ==
    [sent |-> sent, input |-> wire, wire |-> wire, buffer |-> <<>>, results |-> <<>>,
     chunk |-> chunk, overflow_checks |-> overflow_checks, pc |-> "parse"]

InitCodec ==
    /\ InitDb
    /\ aof = <<>> /\ conn = <<>> /\ out = <<>> /\ hist = <<>>
    /\ logged = <<>> /\ applied = <<>> /\ hub = <<>> /\ main = <<>>
    /\ \E n \in 1..MaxFrames : \E sent \in [1..n -> SentFrames] :
       \E chunk \in 0..MaxChunk : \E overflow_checks \in BOOLEAN :
          reader = NewReader(sent, WriteFrames(sent), chunk, overflow_checks)

\* What one call of Frame::parse returned, and the buffer before and after it
Outcome(r, before) ==
    CASE r.tag = "Some" -> [tag |-> "Some", frame |-> r.frame, before |-> before, after |-> r.buffer]
      [] r.tag = "None" -> [tag |-> "None", before |-> before, after |-> r.buffer]
      [] OTHER          -> [tag |-> r.tag, error |-> r.error, before |-> before, after |-> r.buffer]

\* read_frame: if let Some(frame) = self.parse_frame()? { return Ok(Some(frame)) }
\* Connection::parse_frame turns Err(Incomplete) into Ok(None), Err(Invalid)
\* into an io::Error that ends read_frame.
AfterParse(rd, r) ==
    [rd EXCEPT !.results = Append(@, Outcome(r, rd.buffer)),
               !.buffer = r.buffer,
               !.pc = CASE r.tag = "Some" -> "parse"
                        [] r.tag = "None" -> "read"
                        [] r.tag = "Err" /\ r.error = Incomplete -> "read"
                        [] r.tag = "Panic" -> "panicked"
                        [] OTHER          -> "failed"]

ParseBuffer ==
    /\ reader.pc = "parse"
    /\ reader' = AfterParse(reader, parse(reader.buffer, reader.overflow_checks))
    /\ UNCHANGED <<dbVars, aof, conn, out, hist, logged, applied, hub, main>>

\* read_frame: self.stream.read_buf(&mut self.buffer) brings bytes
ReadBuf ==
    /\ reader.pc = "read" /\ reader.wire # <<>>
    /\ LET n == IF reader.chunk = 0 THEN Len(reader.wire)
                ELSE Min(reader.chunk, Len(reader.wire)) IN
       reader' = [reader EXCEPT !.buffer = @ \o SubSeq(reader.wire, 1, n),
                                !.wire = SubSeq(@, n + 1, Len(@)),
                                !.pc = "parse"]
    /\ UNCHANGED <<dbVars, aof, conn, out, hist, logged, applied, hub, main>>

\* read_frame: read_buf returns 0, the peer has closed
ReadEof ==
    /\ reader.pc = "read" /\ reader.wire = <<>>
    /\ reader' = [reader EXCEPT !.pc = IF reader.buffer = <<>> THEN "closed" ELSE "reset"]
    /\ UNCHANGED <<dbVars, aof, conn, out, hist, logged, applied, hub, main>>

NextCodec == ParseBuffer \/ ReadBuf \/ ReadEof

SpecCodec == InitCodec /\ [][NextCodec]_vars

-----------------------------------------------------------------------------
(* SpecWire: a peer sends bytes of its own choosing: a header line (a type    *)
(* byte, a count or a text, a line end) and a few bytes or an item after it.  *)

CountTexts ==
    { <<"-", "1">>, <<"0">>, <<"1">>, <<"2">>, <<"-", "2">>, <<"-", "5">>,
      <<"-", "6">>, <<"-", "9">>, <<"a">>, <<>>, <<"+", "1">>, <<"1", "a">> }

LineEnds == { CRLF, <<LF>>, <<CR>>, <<>> }

Headers ==
    { <<t>> \o c \o e : t \in {"$", "*"}, c \in CountTexts, e \in LineEnds }
    \cup { <<"+", "a">> \o e : e \in LineEnds }
    \cup { <<":", "1">> \o e : e \in LineEnds }

TailBytes == {"a", CR, LF}

ShortTails == UNION { [1..n -> TailBytes] : n \in 0..MaxTail }

Items ==
    { <<>>, <<":", "1">> \o CRLF, <<"$", "-", "3">> \o CRLF,
      <<"$", "1">> \o CRLF \o <<"a">> \o CRLF, <<"*", "-", "2">> \o CRLF }

RawInputs == { h \o i \o t : h \in Headers, i \in Items, t \in ShortTails }

InitWire ==
    /\ InitDb
    /\ aof = <<>> /\ conn = <<>> /\ out = <<>> /\ hist = <<>>
    /\ logged = <<>> /\ applied = <<>> /\ hub = <<>> /\ main = <<>>
    /\ \E wire \in RawInputs : \E chunk \in 0..MaxChunk : \E overflow_checks \in BOOLEAN :
          reader = NewReader(<<>>, wire, chunk, overflow_checks)

SpecWire == InitWire /\ [][NextCodec]_vars

-----------------------------------------------------------------------------
(* Claims about the codec *)

RECURSIVE TextSafe(_)
TextSafe(frame) ==
    CASE frame.tag \in {"Simple", "Error"} -> CR \notin Range(frame.text) /\ LF \notin Range(frame.text)
      [] frame.tag = "Array" -> \A i \in DOMAIN frame.items : TextSafe(frame.items[i])
      [] OTHER -> TRUE

AllTextSafe == \A i \in DOMAIN reader.sent : TextSafe(reader.sent[i])

IsSome(r) == r.tag = "Some"

\* The frames Frame::parse has returned, in order
Decoded ==
    LET somes == SelectSeq(reader.results, IsSome) IN
    [i \in DOMAIN somes |-> somes[i].frame]

\* The frames returned so far are the first frames sent, no call has failed, and
\* the bytes not yet consumed are the encodings of the frames not yet returned.
DecodesInStep ==
    /\ \A i \in DOMAIN reader.results : reader.results[i].tag \in {"Some", "None"}
    /\ Len(Decoded) <= Len(reader.sent)
    /\ Decoded = SubSeq(reader.sent, 1, Len(Decoded))
    /\ reader.buffer \o reader.wire =
          WriteFrames(SubSeq(reader.sent, Len(Decoded) + 1, Len(reader.sent)))

\* Every byte has arrived and read_frame has nothing left to parse.
Drained == reader.wire = <<>> /\ reader.pc \in {"read", "closed", "reset", "failed", "panicked"}

\* C19: for frames whose Simple and Error texts hold no CR and no LF, decoding
\* the bytes the encoder wrote (all of them in the buffer at once) gives the
\* frames written and consumes exactly their bytes.
C19_CodecRoundTrip ==
    reader.chunk = 0 /\ AllTextSafe =>
        /\ DecodesInStep
        /\ Drained => Decoded = reader.sent /\ reader.buffer = <<>>

\* The nested array with a bulk that holds CR LF has come back as it was sent.
C19_Witness ==
    /\ reader.chunk = 0 /\ Len(reader.sent) = 1
    /\ reader.sent[1] = Array(<<Array(<<Integer(1)>>), Bulk(<<"a", CR, LF>>), Null>>)
    /\ Decoded = reader.sent /\ reader.buffer = <<>> /\ reader.wire = <<>>

\* C20: for the bytes of frames f1..fn (frames as the protocol defines them: no
\* CR and no LF in a Simple or Error text) fed one byte at a time, with parse
\* called after each byte, the calls yield f1..fn in order, every other call
\* returns Incomplete and none returns Invalid.
C20_Incremental ==
    reader.chunk = 1 /\ AllTextSafe =>
        /\ DecodesInStep
        /\ Drained => Decoded = reader.sent /\ reader.buffer = <<>>

\* Two frames fed byte by byte have both come back, the first a bulk of CR LF.
C20_Witness ==
    /\ reader.chunk = 1 /\ Len(reader.sent) = 2
    /\ reader.sent[1] = Bulk(<<CR, LF>>) /\ reader.sent[2].tag = "Array"
    /\ Decoded = reader.sent /\ reader.pc = "closed"
    /\ \E i \in DOMAIN reader.results : reader.results[i].tag = "None"

-----------------------------------------------------------------------------
(* Claims about the decoder on bytes of the peer's choosing *)

ReturnedIncomplete(r) == r.tag = "None" \/ (r.tag = "Err" /\ r.error = Incomplete)
ReturnedInvalid(r) == r.tag = "Err" /\ r.error.tag = "Invalid"

\* The bytes a call removed are those of one frame: the shortest prefix of the
\* buffer that decodes, and it decodes to the frame the call returned.
RemovedOneFrame(r) ==
    \E n \in 1..Len(r.before) :
        /\ r.after = SubSeq(r.before, n + 1, Len(r.before))
        /\ parse(SubSeq(r.before, 1, n), reader.overflow_checks) = ParsedFrame(r.frame, <<>>)
        /\ \A m \in 0..(n - 1) :
              parse(SubSeq(r.before, 1, m), reader.overflow_checks).tag # "Some"

\* C21: a call of parse that returns Incomplete leaves the buffer as it was; a
\* call that returns a Frame removes exactly the bytes of that frame from the
\* front of the buffer and leaves every byte after them.
C21_Restartable ==
    \A i \in DOMAIN reader.results :
        LET r == reader.results[i] IN
        /\ ReturnedIncomplete(r) => r.after = r.before
        /\ r.tag = "Some" => RemovedOneFrame(r)

\* A call on a partial frame has left the buffer alone, and a later call has
\* returned a frame and left the bytes that follow it.
C21_Witness ==
    \E i, j \in DOMAIN reader.results :
        /\ i < j
        /\ reader.results[i].tag = "None" /\ reader.results[i].before # <<>>
        /\ reader.results[j].tag = "Some" /\ reader.results[j].after # <<>>
        /\ reader.results[j].frame.tag = "Bulk"

\* The first line of the input, when the input starts with a Bulk or Array
\* header whose line has its CRLF
FirstLine == read_line(reader.input, 1)
HasCountHeader ==
    /\ reader.input # <<>> /\ reader.input[1] \in {"$", "*"}
    /\ FirstLine.tag = "Ok"

\* The calls of parse made before any frame was removed from the buffer, with
\* the whole header line in the buffer
OnHeader(i) ==
    /\ \A j \in 1..(i - 1) : reader.results[j].tag # "Some"
    /\ Len(reader.results[i].before) >= FirstLine.pos

\* What the count of the header requires of a call on it
CountRule(r) ==
    LET count == IF from_utf8(FirstLine.v) = None THEN None ELSE ParseSigned(FirstLine.v)
        pos == FirstLine.pos IN
    IF count = None \/ count[1] < -1 THEN ReturnedInvalid(r)
    ELSE IF count[1] = -1 THEN r.tag = "Some" /\ r.frame = Null
    ELSE IF reader.input[1] = "$"
         THEN IF Len(r.before) >= pos + count[1] + 2
              THEN r.tag = "Some" /\ r.frame = Bulk(SubSeq(r.before, pos + 1, pos + count[1]))
              ELSE r.tag = "None"
         ELSE r.tag = "Some" => r.frame.tag = "Array" /\ Len(r.frame.items) = count[1]

\* C22: on a Bulk or Array header the decoder returns Null for the count -1,
\* takes a count >= 0 as the exact length, and returns Invalid for any other
\* negative count and for a count that is not a number: no panic, no Frame, no
\* Incomplete.
C22_CountHeader ==
    HasCountHeader =>
        \A i \in DOMAIN reader.results : OnHeader(i) => CountRule(reader.results[i])

\* The same with the counts below -1 left out
CountRuleUnlessNegative ==
    HasCountHeader /\ ~(ParseSigned(FirstLine.v) # None /\ ParseSigned(FirstLine.v)[1] < -1) =>
        \A i \in DOMAIN reader.results : OnHeader(i) => CountRule(reader.results[i])

\* The first line of the input ends with an LF that no CR precedes
LoneLfLine ==
    /\ reader.input # <<>> /\ reader.input[1] \in {"+", "-", ":", "$", "*"}
    /\ \E k \in 2..Len(reader.input) :
          /\ reader.input[k] = LF /\ reader.input[k - 1] # CR
          /\ \A m \in 2..(k - 1) : reader.input[m] \notin {CR, LF}

\* The input is a bulk header with a count n >= 0, n bytes, and two bytes that
\* are not CR LF
BadBulkTrailer ==
    /\ HasCountHeader /\ reader.input[1] = "$"
    /\ ParseSigned(FirstLine.v) # None /\ ParseSigned(FirstLine.v)[1] >= 0
    /\ LET end == FirstLine.pos + ParseSigned(FirstLine.v)[1] IN
       /\ Len(reader.input) >= end + 2
       /\ SubSeq(reader.input, end + 1, end + 2) # CRLF

FirstFrameReturned ==
    \E i \in DOMAIN reader.results :
        /\ reader.results[i].tag = "Some"
        /\ \A j \in 1..(i - 1) : reader.results[j].tag # "Some"

\* C23: an input whose line ends with a lone LF, or whose bulk payload is not
\* followed by CR LF, is not decoded into a Frame: once all of it has been read
\* the decoder has returned Invalid.
C23_CrlfRequired ==
    LoneLfLine \/ BadBulkTrailer =>
        /\ ~FirstFrameReturned
        /\ Drained => \E i \in DOMAIN reader.results : ReturnedInvalid(reader.results[i])

-----------------------------------------------------------------------------
(* pubsub.rs: PubSub, a map from channel name to the Sender of a tokio       *)
(* broadcast channel.  A channel keeps its last CHANNEL_CAPACITY values and   *)
(* the number tail of values sent; a Receiver keeps the position next of the  *)
(* value it will read.                                                        *)

\* const CHANNEL_CAPACITY: usize = 1024, scaled down
CHANNEL_CAPACITY == 2

Channels == {"c", "d"}
\* The k-th publish call carries the message k, so that a message lost, repeated
\* or out of order shows.
NextMessage(h) == Len(h.published) + 1

\* broadcast::channel(CHANNEL_CAPACITY).0: the Sender; its first Receiver is dropped
NewChannel == [buf |-> <<>>, tail |-> 0]

Message(m) == [tag |-> "Message", m |-> m]
Lagged(n) == [tag |-> "Lagged", n |-> n]

\* The Receivers of a channel that have not been dropped
ActiveOn(h, channel) ==
    {i \in DOMAIN h.rx : h.rx[i].active /\ h.rx[i].channel = channel}

\* Sender::receiver_count
receiver_count(h, channel) == Cardinality(ActiveOn(h, channel))

SendBlocksWhenFull(chan, m, receivers) ==
    IF receivers = 0 \/ Len(chan.buf) >= CHANNEL_CAPACITY
    THEN [chan |-> chan, ret |-> Err("SendError")]
    ELSE [chan |-> [buf |-> Append(chan.buf, m), tail |-> chan.tail + 1], ret |-> Ok(receivers)]

\* Sender::send: Err when there is no Receiver; else the value takes the next
\* slot, the oldest value giving way when CHANNEL_CAPACITY are kept
send(chan, m, receivers) ==
    IF receivers = 0 THEN [chan |-> chan, ret |-> Err("SendError")]
    ELSE LET kept == IF Len(chan.buf) < CHANNEL_CAPACITY THEN chan.buf ELSE Tail(chan.buf) IN
         [chan |-> [buf |-> Append(kept, m), tail |-> chan.tail + 1], ret |-> Ok(receivers)]

\* Sender::subscribe: a Receiver of the values sent after this call
SubscribeFromOldest(chan, channel, since) ==
    [channel |-> channel, next |-> chan.tail - Len(chan.buf), since |-> since,
     got |-> <<>>, active |-> TRUE]

subscribe(chan, channel, since) ==
    [channel |-> channel, next |-> chan.tail, since |-> since, got |-> <<>>, active |-> TRUE]

\* Receiver::recv with a value waiting: the value at next, or Lagged(n) when
\* the value at next is no longer kept; next moves to the oldest value kept
recv(chan, r) ==
    LET oldest == chan.tail - Len(chan.buf) IN
    IF r.next < oldest
    THEN [r |-> [r EXCEPT !.next = oldest, !.got = Append(@, Lagged(oldest - r.next))],
          ret |-> Err(Lagged(oldest - r.next))]
    ELSE [r |-> [r EXCEPT !.next = r.next + 1,
                          !.got = Append(@, Message(chan.buf[r.next - oldest + 1]))],
          ret |-> Ok(chan.buf[r.next - oldest + 1])]

PublishCountsSender(h, channel) == receiver_count(h, channel) - 1

\* publish: sender.send(message).map(|_| sender.receiver_count()).unwrap_or(0)
publish_count(h, channel) == receiver_count(h, channel)

InitHub ==
    hub = [channels |-> EmptyMap, rx |-> <<>>, lock |-> None, published |-> <<>>,
           lastPub |-> None, lastRecv |-> None]

InitPubSub == InitDb /\ aof = <<>> /\ conn = <<>> /\ out = <<>> /\ hist = <<>>
              /\ logged = <<>> /\ applied = <<>> /\ reader = <<>> /\ main = <<>> /\ InitHub

\* What a publish call met and returned
PubRecord(channel, m, before, atCall, h, ret) ==
    [channel |-> channel, m |-> m, before |-> before, atCall |-> atCall,
     atReturn |-> ActiveOn(h, channel), after |-> DOMAIN h.channels, ret |-> ret,
     backlog |-> {h.channels[h.rx[i].channel].tail - h.rx[i].next : i \in ActiveOn(h, channel)}]

\* PubSub::subscribe, under the hub lock
Subscribe ==
    /\ hub.lock = None /\ Len(hub.rx) < MaxReceivers
    /\ \E channel \in Channels :
         LET chans == IF channel \in DOMAIN hub.channels THEN hub.channels
                      ELSE MapInsert(hub.channels, channel, NewChannel) IN
         hub' = [hub EXCEPT !.channels = chans,
                            !.rx = Append(@, subscribe(chans[channel], channel, Len(hub.published)))]
    /\ UNCHANGED <<dbVars, aof, conn, out, hist, logged, applied, reader, main>>

\* PubSub::publish up to sender.send(message), taking the hub lock
PublishSend ==
    /\ hub.lock = None /\ Len(hub.published) < MaxPublishes
    /\ \E channel \in Channels :
         LET m == NextMessage(hub)
             before == DOMAIN hub.channels
             atCall == ActiveOn(hub, channel)
             pub == Append(hub.published, [channel |-> channel, m |-> m]) IN
         IF channel \notin DOMAIN hub.channels
         THEN hub' = [hub EXCEPT !.published = pub,
                                 !.lastPub = Some(PubRecord(channel, m, before, atCall, hub, 0))]
         ELSE LET r == send(hub.channels[channel], m, receiver_count(hub, channel))
                  h == [hub EXCEPT !.channels[channel] = r.chan, !.published = pub] IN
              IF r.ret.ok
              THEN hub' = [h EXCEPT !.lock = Some([channel |-> channel, m |-> m,
                                                    before |-> before, atCall |-> atCall])]
              ELSE hub' = [h EXCEPT !.lastPub = Some(PubRecord(channel, m, before, atCall, h, 0))]
    /\ UNCHANGED <<dbVars, aof, conn, out, hist, logged, applied, reader, main>>

\* PubSub::publish from sender.receiver_count() to its return
PublishReturn ==
    /\ hub.lock # None
    /\ LET p == hub.lock[1] IN
       hub' = [hub EXCEPT !.lock = None,
                          !.lastPub = Some(PubRecord(p.channel, p.m, p.before, p.atCall, hub,
                                                     publish_count(hub, p.channel)))]
    /\ UNCHANGED <<dbVars, aof, conn, out, hist, logged, applied, reader, main>>

\* Receiver::recv by the holder of a Receiver, when a value is waiting
Recv ==
    /\ \E i \in DOMAIN hub.rx :
         /\ hub.rx[i].active
         /\ hub.rx[i].next < hub.channels[hub.rx[i].channel].tail
         /\ LET chan == hub.channels[hub.rx[i].channel]
                r == recv(chan, hub.rx[i]) IN
            hub' = [hub EXCEPT !.rx[i] = r.r,
                               !.lastRecv = Some([id |-> i, pre |-> hub.rx[i], chan |-> chan,
                                                  ret |-> r.ret])]
    /\ UNCHANGED <<dbVars, aof, conn, out, hist, logged, applied, reader, main>>

\* The holder of a Receiver drops it
DropReceiver ==
    /\ \E i \in DOMAIN hub.rx :
         /\ hub.rx[i].active
         /\ hub' = [hub EXCEPT !.rx[i].active = FALSE]
    /\ UNCHANGED <<dbVars, aof, conn, out, hist, logged, applied, reader, main>>

\* A cleanup that takes receiver_count to include the Sender
CleanupCountsSender ==
    /\ hub.lock = None
    /\ \E channel \in DOMAIN hub.channels : receiver_count(hub, channel) <= 1
    /\ LET keep == {channel \in DOMAIN hub.channels : receiver_count(hub, channel) > 1} IN
       hub' = [hub EXCEPT !.channels = [channel \in keep |-> hub.channels[channel]]]
    /\ UNCHANGED <<dbVars, aof, conn, out, hist, logged, applied, reader, main>>

\* PubSub::cleanup_empty_channels, under the hub lock
cleanup_empty_channels ==
    /\ hub.lock = None
    /\ \E channel \in DOMAIN hub.channels : receiver_count(hub, channel) = 0
    /\ LET keep == {channel \in DOMAIN hub.channels : receiver_count(hub, channel) > 0} IN
       hub' = [hub EXCEPT !.channels = [channel \in keep |-> hub.channels[channel]]]
    /\ UNCHANGED <<dbVars, aof, conn, out, hist, logged, applied, reader, main>>

NextPubSub ==
    \/ Subscribe \/ PublishSend \/ PublishReturn \/ Recv \/ DropReceiver
    \/ cleanup_empty_channels

SpecPubSub == InitPubSub /\ [][NextPubSub]_vars

-----------------------------------------------------------------------------
(* Claims about the hub *)

RECURSIVE PublishedOn(_, _, _)
PublishedOn(published, channel, n) ==
    IF n >= Len(published) THEN <<>>
    ELSE LET rest == PublishedOn(published, channel, n + 1) IN
         IF published[n + 1].channel = channel THEN <<published[n + 1].m>> \o rest ELSE rest

NeverLagged(r) == \A k \in DOMAIN r.got : r.got[k].tag = "Message"

\* C25: a Receiver that has not lagged has received, in publish order and each
\* once, the first messages published to its channel after its subscribe call,
\* and all of them once no value is waiting; nothing published before, nothing
\* published to another channel.
C25_SubscriberOrder ==
    \A i \in DOMAIN hub.rx :
        LET r == hub.rx[i]
            msgs == PublishedOn(hub.published, r.channel, r.since) IN
        NeverLagged(r) =>
            /\ Len(r.got) <= Len(msgs)
            /\ \A k \in DOMAIN r.got : r.got[k] = Message(msgs[k])
            /\ (r.active /\ r.next = hub.channels[r.channel].tail) => Len(r.got) = Len(msgs)

\* A Receiver has read the two messages of its channel; one message was
\* published to its channel before it subscribed, one to the other channel after.
C25_Witness ==
    \E i \in DOMAIN hub.rx :
        LET r == hub.rx[i] IN
        /\ r.active /\ NeverLagged(r) /\ Len(r.got) = 2
        /\ r.next = hub.channels[r.channel].tail
        /\ \E k \in 1..r.since : hub.published[k].channel = r.channel
        /\ \E k \in (r.since + 1)..Len(hub.published) : hub.published[k].channel # r.channel
        /\ \E j \in DOMAIN hub.rx : j < i /\ hub.rx[j].channel = r.channel /\ hub.rx[j].active

\* The number of messages of its channel a Receiver has passed with its first k
\* results: one for a message, n for Lagged(n)
RECURSIVE Passed(_, _)
Passed(got, k) ==
    IF k = 0 THEN 0
    ELSE Passed(got, k - 1) + (IF got[k].tag = "Lagged" THEN got[k].n ELSE 1)

\* A step of publish on a channel with an active Receiver stores the message as
\* the newest value of the channel, whatever any Receiver has left unread.
PublishStores ==
    hub'.published # hub.published =>
        LET p == hub'.published[Len(hub'.published)] IN
        (p.channel \in DOMAIN hub.channels /\ ActiveOn(hub, p.channel) # {}) =>
            /\ hub'.channels[p.channel].tail = hub.channels[p.channel].tail + 1
            /\ hub'.channels[p.channel].buf[Len(hub'.channels[p.channel].buf)] = p.m
            /\ hub'.lock # None

\* A recv of a Receiver more than CHANNEL_CAPACITY behind returns Lagged(n), n
\* the messages behind beyond CHANNEL_CAPACITY; any other recv returns a message.
\* Every message returned is the one that follows those passed, so after Lagged
\* comes the oldest message kept.  No other Receiver changes.
RecvLags ==
    \A i \in DOMAIN hub.rx :
        hub'.rx[i] # hub.rx[i] /\ hub'.rx[i].active =>
            LET r == hub.rx[i]
                behind == hub.channels[r.channel].tail - r.next
                new == hub'.rx[i].got[Len(hub'.rx[i].got)]
                msgs == PublishedOn(hub.published, r.channel, r.since) IN
            /\ Len(hub'.rx[i].got) = Len(r.got) + 1
            /\ IF behind > CHANNEL_CAPACITY
               THEN new = Lagged(behind - CHANNEL_CAPACITY)
               ELSE new = Message(msgs[Passed(r.got, Len(r.got)) + 1])
            /\ Passed(r.got, Len(r.got)) = Len(msgs) - behind
            /\ \A j \in DOMAIN hub.rx : j # i => hub'.rx[j] = hub.rx[j]

\* C26: publish is not held up by what a subscriber has left unread; a
\* subscriber more than CHANNEL_CAPACITY behind loses its oldest messages, is
\* told Lagged with their number, and goes on with the oldest message kept;
\* the other subscribers are not affected.
C26_SlowSubscriber == [][PublishStores /\ RecvLags]_vars

\* One Receiver was told Lagged(1) and then read the oldest message kept, while
\* the other Receiver of the channel has read every message without a lag.
C26_Witness ==
    \E i, j \in DOMAIN hub.rx :
        /\ i # j /\ hub.rx[i].channel = hub.rx[j].channel
        /\ Len(hub.rx[i].got) = 2
        /\ hub.rx[i].got[1] = Lagged(1) /\ hub.rx[i].got[2].tag = "Message"
        /\ NeverLagged(hub.rx[j]) /\ Len(hub.rx[j].got) = 3

\* A step that takes a channel out of the map takes out the channels without an
\* active Receiver, and no other; it leaves the Receivers alone.
CleanupRemovesEmpty ==
    ~(DOMAIN hub.channels \subseteq DOMAIN hub'.channels) =>
        /\ DOMAIN hub'.channels =
               {channel \in DOMAIN hub.channels : receiver_count(hub, channel) > 0}
        /\ \A channel \in DOMAIN hub'.channels : hub'.channels[channel] = hub.channels[channel]
        /\ hub'.rx = hub.rx

\* The Sender of an active Receiver's channel is in the map
SenderInMap == \A i \in DOMAIN hub.rx : hub.rx[i].active => hub.rx[i].channel \in DOMAIN hub.channels

\* A publish to a channel with an active Receiver finds the Sender and stores
\* the message for it, and the call counts the Receivers active at its return.
PublishReaches ==
    /\ hub'.published # hub.published =>
          LET p == hub'.published[Len(hub'.published)] IN
          ActiveOn(hub, p.channel) # {} =>
              /\ p.channel \in DOMAIN hub.channels
              /\ hub'.channels[p.channel].tail = hub.channels[p.channel].tail + 1
              /\ \A i \in ActiveOn(hub, p.channel) : hub.rx[i].next <= hub.channels[p.channel].tail
    /\ hub'.lastPub # hub.lastPub =>
          hub'.lastPub[1].ret = Cardinality(hub'.lastPub[1].atCall \cap hub'.lastPub[1].atReturn)

\* C36: cleanup_empty_channels takes out of the map the channels with no active
\* Receiver and keeps each channel that has one; whatever the order of the
\* subscribe, publish, drop and cleanup calls, the channel of a Receiver that
\* subscribe has returned stays in the map, and each later publish to it is
\* stored for the Receiver and counts it.
C36_CleanupKeepsSubscribers ==
    [][CleanupRemovesEmpty /\ SenderInMap' /\ PublishReaches]_vars

\* A cleanup has taken out the channel of a dropped Receiver and kept the other
\* channel; a publish made after it has counted the Receiver of that channel,
\* and the Receiver has read the message.
C36_Witness ==
    /\ hub.lastPub # None /\ hub.lock = None
    /\ \E i, j \in DOMAIN hub.rx :
          /\ ~hub.rx[j].active /\ hub.rx[j].channel \notin DOMAIN hub.channels
          /\ hub.rx[i].active /\ hub.rx[i].channel = hub.lastPub[1].channel
          /\ hub.lastPub[1].before = {hub.rx[i].channel}
          /\ hub.lastPub[1].ret = 1
          /\ hub.rx[i].got # <<>>
          /\ hub.rx[i].got[Len(hub.rx[i].got)] = Message(hub.lastPub[1].m)

====
